---- MODULE Spec2Model ----
(***************************************************************************)
(* A model of the GraphL front end: the AST of src/src/ast.rs, the         *)
(* explicit-stack walker of src/src/walker.rs with the visitors that drive *)
(* it, and the parse/print pipeline of src/src/lib.rs.                     *)
(***************************************************************************)
EXTENDS Naturals, Sequences, FiniteSets, TLC

(***************************************************************************)
(* Bounds of the model.                                                    *)
(***************************************************************************)
\* Number of Walker::visit runs that share one Graph.
Walkers == 2

\* Largest number of channels of a ContractBuilder.
MaxChannels == 3

\* Largest number of arguments added to a ContractBuilder.
MaxArguments == 2

\* Largest number of Graph nodes of an enumerated input graph.
MaxNodes == 5

\* Longest chain of nested let-bindings among the input graphs.
MaxChain == 6

(***************************************************************************)
(* The AST (ast.rs).  A Graph is a record tagged by `kind`; the variants   *)
(* holding one struct (Nominate(Binding), Subgraph(GraphBinding), ...) are *)
(* the record of that struct's fields.  A Binding is a record without tag. *)
(***************************************************************************)
NameWildcard == [kind |-> "Wildcard"]

NameVVar(value) == [kind |-> "VVar", value |-> value]

NameGVar(value) == [kind |-> "GVar", value |-> value]

NameQuoteGraph(value) == [kind |-> "QuoteGraph", value |-> value]

NameQuoteVertex(value) == [kind |-> "QuoteVertex", value |-> value]

Vertex(name) == [name |-> name]

Binding(graph, var, vertex) == [graph |-> graph, var |-> var, vertex |-> vertex]

Nil == [kind |-> "Nil"]

GVertex(graph, vertex) == [kind |-> "Vertex", graph |-> graph, vertex |-> vertex]

GVar(graph, var) == [kind |-> "Var", graph |-> graph, var |-> var]

Nominate(binding) ==
    [kind |-> "Nominate", graph |-> binding.graph, var |-> binding.var,
     vertex |-> binding.vertex]

GEdgeAnon(binding_1, binding_2) ==
    [kind |-> "EdgeAnon", binding_1 |-> binding_1, binding_2 |-> binding_2]

GEdgeNamed(binding_1, binding_2, name) ==
    [kind |-> "EdgeNamed", binding_1 |-> binding_1, binding_2 |-> binding_2,
     name |-> name]

GRuleAnon(graph_1, graph_2) ==
    [kind |-> "RuleAnon", graph_1 |-> graph_1, graph_2 |-> graph_2]

GRuleNamed(graph_1, graph_2, name) ==
    [kind |-> "RuleNamed", graph_1 |-> graph_1, graph_2 |-> graph_2, name |-> name]

Subgraph(graph_1, graph_2, var) ==
    [kind |-> "Subgraph", graph_1 |-> graph_1, graph_2 |-> graph_2, var |-> var]

GTensor(graph_1, graph_2) ==
    [kind |-> "Tensor", graph_1 |-> graph_1, graph_2 |-> graph_2]

GContext(graph, name, string) ==
    [kind |-> "Context", graph |-> graph, name |-> name, string |-> string]

\* The variants with one continuation, with two bindings, with two graphs.
UnaryKinds == {"Vertex", "Var", "Nominate", "Context"}

EdgeKinds == {"EdgeAnon", "EdgeNamed"}

BinaryKinds == {"RuleAnon", "RuleNamed", "Subgraph", "Tensor"}

(***************************************************************************)
(* The input graphs: every graph of at most MaxNodes Graph nodes, over one *)
(* payload per variant, and the chains of let-bindings up to MaxChain.     *)
(***************************************************************************)
UnaryOver(g) ==
    { GVertex(g, Vertex(NameVVar("a"))),
      GVar(g, "e1"),
      Nominate(Binding(g, "n", Vertex(NameVVar("b")))),
      GContext(g, NameVVar("f"), "foo") }

BinaryOver(g1, g2) ==
    { GEdgeAnon(Binding(g1, "va", Vertex(NameVVar("a"))),
                Binding(g2, "vb", Vertex(NameVVar("b")))),
      GEdgeNamed(Binding(g1, "va", Vertex(NameVVar("a"))),
                 Binding(g2, "vb", Vertex(NameVVar("b"))),
                 NameQuoteGraph(Nil)),
      GRuleAnon(g1, g2),
      GRuleNamed(g1, g2, NameGVar("R")),
      Subgraph(g1, g2, "G"),
      GTensor(g1, g2) }

RECURSIVE GraphsOfSize(_)
GraphsOfSize(n) ==
    IF n = 1 THEN {Nil}
    ELSE UNION { UnaryOver(g) : g \in GraphsOfSize(n - 1) }
         \cup UNION { UNION { BinaryOver(g1, g2) : g1 \in GraphsOfSize(i),
                                                    g2 \in GraphsOfSize(n - 1 - i) }
                      : i \in 1..(n - 2) }

RECURSIVE NominateChain(_)
NominateChain(n) ==
    IF n = 0 THEN Nil
    ELSE Nominate(Binding(NominateChain(n - 1), "n", Vertex(NameVVar("b"))))

Graphs ==
    UNION { GraphsOfSize(n) : n \in 1..MaxNodes }
    \cup { NominateChain(n) : n \in 0..MaxChain }

(***************************************************************************)
(* References into the tree.  A `&Graph` or `&Binding` is the path of      *)
(* field names from the root to the node it points to.                     *)
(***************************************************************************)
RECURSIVE At(_, _)
At(node, path) ==
    IF path = << >> THEN node ELSE At(node[Head(path)], Tail(path))

VARIABLES
    graph,                \* Walker.graph: the root the walker was built for
    visitor,              \* the visitor handed to visit
    initial_accumulator,  \* the accumulator handed to visit
    pc,                   \* "new", "loop", "done", "panicked"; "idle": no walk
    stack,                \* visit's work stack of WalkingStep
    accumulator,          \* visit's accumulator
    calls,                \* history: the visitor calls made so far, in order
    lpc,                  \* position in the parse/print pipeline; "idle": none
    round,                \* which parse_to_ast call is running: 1 or 2
    code,                 \* parse_to_ast: the String it was given
    parse_graph,          \* parse_to_ast: the guard `graph` around psGraph's result
    parsed,               \* what the latest parse_to_ast returned
    ast,                  \* the Graph of the first parse, handed to ast_to_graphl
    ast_guard,            \* ast_to_graphl: the guard `ast` around the native tree
    graphl,               \* ast_to_graphl: the pointer printGraph returned
    buf,                  \* the printer's buffer, which `graphl` points into
    printed_graphl,       \* what ast_to_graphl returned
    released,             \* history: the release calls made by dropped guards
    buf_of,               \* the call whose printGraph filled the buffer; 0: none
    parser_fault,         \* what the native library does wrong, "none" if nothing
    self,                 \* the ast_to_graphl call that is running: 1 or 2
    suspended,            \* the locals of the calls that are not running
    builder,              \* a ContractBuilder: contract_name, channels, arguments
    rendered,             \* what the latest render_rholang returned
    heap,                 \* the native allocations made, freed and guarded
    consumed,             \* a consume call: its guards, the heap before, its result
    context_cell          \* a callback context: the pointer and the latest call on it

walkerVars == <<graph, visitor, initial_accumulator, pc, stack, accumulator, calls>>

pipelineVars ==
    <<lpc, round, code, parse_graph, parsed, ast, ast_guard, graphl, buf,
      printed_graphl, released, buf_of>>

builderVars == <<builder, rendered>>

otherVars ==
    <<parser_fault, self, suspended, builderVars, heap, consumed, context_cell>>

vars == <<walkerVars, pipelineVars, otherVars>>

\* A variable that holds nothing yet: a local not in scope, a call not returned.
NoValue == [kind |-> "None"]

\* No parse_to_ast or ast_to_graphl call is in progress.
PipelineIdle ==
    /\ lpc = "idle"
    /\ round = 1
    /\ code = << >>
    /\ parse_graph = NoValue
    /\ parsed = NoValue
    /\ ast = NoValue
    /\ ast_guard = NoValue
    /\ graphl = NoValue
    /\ buf = << >>
    /\ printed_graphl = NoValue
    /\ released = << >>
    /\ buf_of = 0

\* The native library before any allocation: the allocations made, the release
\* calls of dropped guards, the constructor calls counted, the call that
\* returns null (0: none does), and the guards the running calls hold.
EmptyHeap(fail_at) ==
    [made |-> << >>, dropped |-> << >>, calls |-> 0, fail_at |-> fail_at,
     guards |-> {}]

\* No ContractBuilder has been made.
BuilderIdle ==
    /\ builder = NoValue
    /\ rendered = NoValue

\* The native parser returns its trees as parsed, and one call runs at a time.
OtherIdle ==
    /\ parser_fault = "none"
    /\ self = 1
    /\ heap = EmptyHeap(0)
    /\ consumed = NoValue
    /\ context_cell = NoValue
    /\ suspended = NoValue
    /\ BuilderIdle

Deref(ref) == At(graph, ref)

\* WalkingStep::Graph(&Graph) and WalkingStep::Binding(&Binding).
GraphStep(ref) == [type |-> "Graph", ref |-> ref]

BindingStep(ref) == [type |-> "Binding", ref |-> ref]

(***************************************************************************)
(* Visitors.  A call is the visitor method with the arguments the walker   *)
(* hands it besides the accumulator; a visitor answers with the next       *)
(* accumulator, or panics.                                                 *)
(***************************************************************************)
Call(method, args) == [method |-> method, args |-> args]

Returns(acc) == [panic |-> FALSE, acc |-> acc]

Panics(acc) == [panic |-> TRUE, acc |-> acc]

\* TestAccumulator: opening and closing fragments, each a sequence of pieces.
TestAccumulator == [left |-> << >>, right |-> << >>]

with_left(acc, left) == [acc EXCEPT !.left = Append(@, left)]

with_right(acc, right) == [acc EXCEPT !.right = Append(@, right)]

\* impl Visitor<TestAccumulator> for TestVisitor.
TestVisitor(call, acc) ==
    LET m == call.method
        a == call.args
    IN  CASE m = "visit_nil" ->
               Returns(with_right(with_left(acc, <<"<nil/>\n">>), << >>))
          [] m = "visit_vertex" ->
               IF a[1].name.kind = "VVar"
               THEN Returns(with_right(
                        with_left(acc, <<"<vertex ", a[1].name.value, ">\n">>),
                        <<"</vertex>\n">>))
               ELSE Panics(acc)
          [] m = "visit_var" ->
               Returns(with_right(with_left(acc, <<"<var ", a[1], ">\n">>),
                                  <<"</var>\n">>))
          [] m = "visit_nominate" ->
               IF a[2].name.kind = "VVar"
               THEN Returns(with_right(
                        with_left(acc, <<"<nominate ", a[1], " for vertex ",
                                         a[2].name.value, ">\n">>),
                        <<"</nominate>\n">>))
               ELSE Panics(acc)
          [] m = "visit_context" ->
               IF a[1].kind = "VVar"
               THEN Returns(with_right(
                        with_left(acc, <<"<context for ", a[1].value, " with ",
                                         a[2], ">\n">>),
                        <<"</context>\n">>))
               ELSE Panics(acc)
          [] m = "visit_edge_anon" ->
               Returns(with_right(with_left(acc, <<"<edge>\n">>), <<"</edge>\n">>))
          [] OTHER -> Panics(acc)

\* impl Display for TestAccumulator: the opening fragments in order, then the
\* closing fragments in reverse order.
RECURSIVE Concat(_)
Concat(fragments) ==
    IF fragments = << >> THEN << >> ELSE Head(fragments) \o Concat(Tail(fragments))

Rev(s) == [i \in 1..Len(s) |-> s[Len(s) + 1 - i]]

\* Rendered with the closing fragments written in the order they were recorded.
RenderedForward(acc) == acc.left \o acc.right

\* The fragments in the order Display writes them.
Rendered(acc) == acc.left \o Rev(acc.right)

Display(acc) == Concat(Rendered(acc))

\* A complete visitor over a Result accumulator: it counts the nodes, declines
\* a Var node with an error, and hands an error on unchanged.
Ok(val) == [tag |-> "Ok", val |-> val]

Err(val) == [tag |-> "Err", val |-> val]

FoldVisitor(call, acc) ==
    IF acc.tag = "Err" THEN Returns(acc)
    ELSE IF call.method = "visit_var" THEN Returns(Err(acc.val))
    ELSE Returns(Ok(acc.val + 1))

Visitors == {"TestVisitor", "FoldVisitor"}

InitialAccumulator(v) == IF v = "TestVisitor" THEN TestAccumulator ELSE Ok(0)

Apply(v, call, acc) ==
    IF v = "TestVisitor" THEN TestVisitor(call, acc) ELSE FoldVisitor(call, acc)

(***************************************************************************)
(* Walker::visit (walker.rs).                                              *)
(***************************************************************************)
\* The children of a node as the AST declares them, first child first: the
\* continuation of a unary node or of a binding, the two bindings of an edge,
\* the two graphs of a rule, a subgraph or a tensor.
ChildSteps(el) ==
    LET n == Deref(el.ref)
        r == el.ref
    IN  IF el.type = "Binding" THEN <<GraphStep(r \o <<"graph">>)>>
        ELSE IF n.kind \in UnaryKinds THEN <<GraphStep(r \o <<"graph">>)>>
        ELSE IF n.kind \in EdgeKinds
             THEN <<BindingStep(r \o <<"binding_1">>), BindingStep(r \o <<"binding_2">>)>>
        ELSE IF n.kind \in BinaryKinds
             THEN <<GraphStep(r \o <<"graph_1">>), GraphStep(r \o <<"graph_2">>)>>
        ELSE << >>

\* Pushes with the pushes of a two-child arm in field order.
PushesInFieldOrder(el) == ChildSteps(el)

\* Pushes with the push of the second child forgotten.
PushesFirstOnly(el) ==
    IF ChildSteps(el) = << >> THEN << >> ELSE <<ChildSteps(el)[1]>>

\* Pushes with the popped step pushed back before its children.
PushesAgain(el) == <<el>> \o ChildSteps(el)

\* Pushes with an edge pushing the continuations of its bindings, the bindings
\* themselves skipped.
PushesEdgeContinuations(el) ==
    LET cs == ChildSteps(el)
    IN  IF Len(cs) = 2 /\ cs[1].type = "Binding"
        THEN <<GraphStep(cs[2].ref \o <<"graph">>), GraphStep(cs[1].ref \o <<"graph">>)>>
        ELSE [i \in 1..Len(cs) |-> cs[Len(cs) + 1 - i]]

\* Pushes with a two-child arm pushing its first child in both pushes.
PushesFirstTwice(el) ==
    LET cs == ChildSteps(el)
    IN  IF Len(cs) = 2 THEN <<cs[1], cs[1]>> ELSE cs

\* The steps one match arm pushes, in the order it pushes them.
Pushes(el) ==
    LET n == Deref(el.ref)
        r == el.ref
    IN  IF el.type = "Binding" THEN <<GraphStep(r \o <<"graph">>)>>
        ELSE CASE n.kind = "Nil" -> << >>
               [] n.kind = "Vertex" -> <<GraphStep(r \o <<"graph">>)>>
               [] n.kind = "Var" -> <<GraphStep(r \o <<"graph">>)>>
               [] n.kind = "Nominate" -> <<GraphStep(r \o <<"graph">>)>>
               [] n.kind = "EdgeAnon" ->
                    <<BindingStep(r \o <<"binding_2">>), BindingStep(r \o <<"binding_1">>)>>
               [] n.kind = "EdgeNamed" ->
                    <<BindingStep(r \o <<"binding_2">>), BindingStep(r \o <<"binding_1">>)>>
               [] n.kind = "RuleAnon" ->
                    <<GraphStep(r \o <<"graph_2">>), GraphStep(r \o <<"graph_1">>)>>
               [] n.kind = "RuleNamed" ->
                    <<GraphStep(r \o <<"graph_2">>), GraphStep(r \o <<"graph_1">>)>>
               [] n.kind = "Subgraph" ->
                    <<GraphStep(r \o <<"graph_2">>), GraphStep(r \o <<"graph_1">>)>>
               [] n.kind = "Tensor" ->
                    <<GraphStep(r \o <<"graph_2">>), GraphStep(r \o <<"graph_1">>)>>
               [] n.kind = "Context" -> <<GraphStep(r \o <<"graph">>)>>

\* EdgeAnonOf with the two bindings taken for each other.
EdgeAnonSwapped(n) == [binding_1 |-> n.binding_2, binding_2 |-> n.binding_1]

\* The edge struct an edge arm hands to the visitor.
EdgeAnonOf(n) == [binding_1 |-> n.binding_1, binding_2 |-> n.binding_2]

EdgeNamedOf(n) ==
    [binding_1 |-> n.binding_1, binding_2 |-> n.binding_2, name |-> n.name]

\* The visitor call one match arm makes.
Dispatch(el) ==
    LET n == Deref(el.ref)
    IN  IF el.type = "Binding" THEN Call("visit_nominate", <<n.var, n.vertex>>)
        ELSE CASE n.kind = "Nil" -> Call("visit_nil", << >>)
               [] n.kind = "Vertex" -> Call("visit_vertex", <<n.vertex>>)
               [] n.kind = "Var" -> Call("visit_var", <<n.var>>)
               [] n.kind = "Nominate" -> Call("visit_nominate", <<n.var, n.vertex>>)
               [] n.kind = "EdgeAnon" -> Call("visit_edge_anon", <<EdgeAnonOf(n)>>)
               [] n.kind = "EdgeNamed" -> Call("visit_edge_named", <<EdgeNamedOf(n)>>)
               [] n.kind = "RuleAnon" -> Call("visit_rule_anon", <<n.graph_1, n.graph_2>>)
               [] n.kind = "RuleNamed" ->
                    Call("visit_rule_named", <<n.name, n.graph_1, n.graph_2>>)
               [] n.kind = "Subgraph" ->
                    Call("visit_subgraph", <<n.graph_1, n.graph_2, n.var>>)
               [] n.kind = "Tensor" -> Call("visit_tensor", <<n.graph_1, n.graph_2>>)
               [] n.kind = "Context" -> Call("visit_context", <<n.name, n.string>>)

\* Passed with the accumulator visit was given handed to every call.
PassedInitial == initial_accumulator

\* The accumulator a match arm hands to the visitor.
Passed == accumulator

\* Popped with the top step read and left on the stack.
PoppedPeek == stack

\* The stack after `stack.pop()`.
Popped == SubSeq(stack, 1, Len(stack) - 1)

Init ==
    /\ graph \in Graphs
    /\ visitor \in Visitors
    /\ initial_accumulator = InitialAccumulator(visitor)
    /\ pc = "new"
    /\ stack = << >>
    /\ accumulator = initial_accumulator
    /\ calls = << >>
    /\ PipelineIdle
    /\ OtherIdle

\* visit is entered: the stack holds the root, the accumulator is the initial one.
Start ==
    /\ pc = "new"
    /\ pc' = "loop"
    /\ stack' = <<GraphStep(<< >>)>>
    /\ accumulator' = initial_accumulator
    /\ UNCHANGED <<graph, visitor, initial_accumulator, calls>>
    /\ UNCHANGED <<pipelineVars, otherVars>>

\* One iteration of `while let Some(el) = stack.pop()`.
Visit ==
    /\ pc = "loop"
    /\ stack # << >>
    /\ LET el == stack[Len(stack)]
           call == Dispatch(el)
           result == Apply(visitor, call, Passed)
       IN  /\ calls' = Append(calls, [step |-> el, method |-> call.method,
                                      args |-> call.args, acc_in |-> Passed,
                                      returned |-> ~result.panic,
                                      acc_out |-> result.acc])
           /\ IF result.panic
              THEN /\ pc' = "panicked"
                   /\ stack' = << >>
                   /\ UNCHANGED accumulator
              ELSE /\ pc' = "loop"
                   /\ stack' = Popped \o Pushes(el)
                   /\ accumulator' = result.acc
    /\ UNCHANGED <<graph, visitor, initial_accumulator>>
    /\ UNCHANGED <<pipelineVars, otherVars>>

\* The stack is empty: visit returns the accumulator.
Return ==
    /\ pc = "loop"
    /\ stack = << >>
    /\ pc' = "done"
    /\ UNCHANGED <<graph, visitor, initial_accumulator, stack, accumulator, calls>>
    /\ UNCHANGED <<pipelineVars, otherVars>>

Next == Start \/ Visit \/ Return

Spec == Init /\ [][Next]_vars

(***************************************************************************)
(* Several visit runs over one Graph, each from its own thread.  One run   *)
(* is on the processor; its locals are the walker variables, those of the  *)
(* others are in `suspended`.  Yield hands the processor to another run    *)
(* between two steps.  The Graph is borrowed by all of them (`&self`).     *)
(***************************************************************************)
SharedGraphs == GraphsOfSize(1) \cup GraphsOfSize(2) \cup GraphsOfSize(3)

\* The arguments and locals of a visit run.
WalkLocals(v, initial, at, stk, acc, made) ==
    [visitor |-> v, initial_accumulator |-> initial, pc |-> at, stack |-> stk,
     accumulator |-> acc, calls |-> made]

\* A run that has not entered visit yet.
FreshWalk(v) ==
    WalkLocals(v, InitialAccumulator(v), "new", << >>, InitialAccumulator(v), << >>)

\* ResumedStack with one stack for all runs: the resumed run finds the stack
\* of the run that left the processor.
SharedStack(run) == stack

\* The stack a resumed run finds: its own `let mut stack`.
ResumedStack(run) == run.stack

\* ResumedAccumulator with one accumulator for all runs of a visitor: the
\* resumed run goes on from the accumulator of the run that left the processor.
SharedAccumulator(run) ==
    IF run.visitor = visitor THEN accumulator ELSE run.accumulator

\* The accumulator a resumed run finds: its own `let mut accumulator`.
ResumedAccumulator(run) == run.accumulator

SharedWalkInit ==
    /\ graph \in SharedGraphs
    /\ visitor \in Visitors
    /\ initial_accumulator = InitialAccumulator(visitor)
    /\ pc = "new"
    /\ stack = << >>
    /\ accumulator = initial_accumulator
    /\ calls = << >>
    /\ PipelineIdle
    /\ parser_fault = "none"
    /\ self = 1
    /\ heap = EmptyHeap(0)
    /\ consumed = NoValue
    /\ context_cell = NoValue
    /\ suspended \in [1..(Walkers - 1) -> { FreshWalk(v) : v \in Visitors }]
    /\ BuilderIdle

\* The scheduler takes the running visit off the processor and resumes one
\* that has not returned yet.
Yield ==
    /\ \E i \in 1..Len(suspended) :
          LET run == suspended[i]
          IN  /\ run.pc \in {"new", "loop"}
              /\ visitor' = run.visitor
              /\ initial_accumulator' = run.initial_accumulator
              /\ pc' = run.pc
              /\ stack' = ResumedStack(run)
              /\ accumulator' = ResumedAccumulator(run)
              /\ calls' = run.calls
              /\ suspended' = [suspended EXCEPT
                                  ![i] = WalkLocals(visitor, initial_accumulator, pc,
                                                    stack, accumulator, calls)]
    /\ UNCHANGED <<graph, parser_fault, heap, consumed, context_cell, self, builderVars>>
    /\ UNCHANGED pipelineVars

SharedWalkNext == Start \/ Visit \/ Return \/ Yield

SharedWalkSpec == SharedWalkInit /\ [][SharedWalkNext]_vars

\* The walk under the scheduling of a running thread: a step that can be
\* taken is taken.
FairSpec == Spec /\ WF_vars(Next)

(***************************************************************************)
(* Errors and results (ast.rs, enum Error).  A Result is Ok(val) or        *)
(* Err(val), as above.                                                     *)
(***************************************************************************)
InvalidCString(position) == [type |-> "InvalidCString", position |-> position]

InvalidUtf8String == [type |-> "InvalidUtf8String"]

NullPointer(context) == [type |-> "NullPointer", context |-> context]

InvalidVariant(context) == [type |-> "InvalidVariant", context |-> context]

InvalidGraphL == [type |-> "InvalidGraphL"]

(***************************************************************************)
(* Text.  A String is the sequence of its characters.  NulChar stands for  *)
(* the byte 0 and BadByte for a byte that is not UTF-8.                    *)
(***************************************************************************)
NulChar == "\\0"

BadByte == "\\xFF"

Quote == "\""

\* CStringNew with the position of the last 0 byte reported.
CStringNewLastNul(str) ==
    LET nuls == { i \in 1..Len(str) : str[i] = NulChar }
    IN  IF nuls = {} THEN [tag |-> "Ok", val |-> str]
        ELSE [tag |-> "Err",
              val |-> InvalidCString((CHOOSE i \in nuls : \A j \in nuls : i >= j) - 1)]

\* CString::new: the text, or the 0-based position of its first 0 byte.
CStringNew(str) ==
    LET nuls == { i \in 1..Len(str) : str[i] = NulChar }
    IN  IF nuls = {} THEN Ok(str)
        ELSE Err(InvalidCString((CHOOSE i \in nuls : \A j \in nuls : i <= j) - 1))

\* context.rs, INNER_PLACEHOLDER: the marker the text-substituting visitors
\* replace.
INNER_PLACEHOLDER == <<"%", "i", "n", "n", "e", "r">>

\* String::replace: every occurrence of `from`, left to right, becomes `to`.
RECURSIVE Replace(_, _, _)
Replace(text, from, to) ==
    LET found == { i \in 1..(Len(text) - Len(from) + 1) :
                     SubSeq(text, i, i + Len(from) - 1) = from }
    IN  IF found = {} THEN text
        ELSE LET first == CHOOSE i \in found : \A j \in found : i <= j
             IN  SubSeq(text, 1, first - 1) \o to
                 \o Replace(SubSeq(text, first + Len(from), Len(text)), from, to)

\* CStr::to_str: the text when it is UTF-8.
IsUtf8(chars) == \A i \in 1..Len(chars) : chars[i] # BadByte

(***************************************************************************)
(* The native tree.  A native pointer is Null or a node: a record of the   *)
(* `kind` tag and the fields of the variant's member of the union.  The    *)
(* constructors are the parser library's; each stores its arguments in the *)
(* fields the readers of ast.rs read.                                      *)
(***************************************************************************)
Null == [kind |-> "NULL"]

make_LVar(chars) == [kind |-> "chars", chars |-> chars]

make_NameWildcard == [kind |-> "is_NameWildcard"]

make_NameVVar(lvar) == [kind |-> "is_NameVVar", lvar_ |-> lvar]

make_NameGVar(uvar) == [kind |-> "is_NameGVar", uvar_ |-> uvar]

make_NameQuoteGraph(g) == [kind |-> "is_NameQuoteGraph", graph_ |-> g]

make_NameQuoteVertex(v) == [kind |-> "is_NameQuoteVertex", vertex_ |-> v]

make_VName(name) == [kind |-> "is_VName", name_ |-> name]

make_VBind(lvar, vertex, g) ==
    [kind |-> "is_VBind", lvar_ |-> lvar, vertex_ |-> vertex, graph_ |-> g]

make_GBind(uvar, g1, g2) ==
    [kind |-> "is_GBind", uvar_ |-> uvar, graph_1 |-> g1, graph_2 |-> g2]

make_GNil == [kind |-> "is_GNil"]

make_GVertex(vertex, g) == [kind |-> "is_GVertex", vertex_ |-> vertex, graph_ |-> g]

make_GVar(lvar, g) == [kind |-> "is_GVar", lvar_ |-> lvar, graph_ |-> g]

make_GNominate(binding) == [kind |-> "is_GNominate", binding_ |-> binding]

make_GEdgeAnon(b1, b2) == [kind |-> "is_GEdgeAnon", binding_1 |-> b1, binding_2 |-> b2]

make_GEdgeNamed(name, b1, b2) ==
    [kind |-> "is_GEdgeNamed", name_ |-> name, binding_1 |-> b1, binding_2 |-> b2]

make_GRuleAnon(g1, g2) == [kind |-> "is_GRuleAnon", graph_1 |-> g1, graph_2 |-> g2]

make_GRuleNamed(name, g1, g2) ==
    [kind |-> "is_GRuleNamed", name_ |-> name, graph_1 |-> g1, graph_2 |-> g2]

make_GSubgraph(graphbinding) ==
    [kind |-> "is_GSubgraph", graphbinding_ |-> graphbinding]

make_GTensor(g1, g2) == [kind |-> "is_GTensor", graph_1 |-> g1, graph_2 |-> g2]

make_GContext(string, name, g) ==
    [kind |-> "is_GContext", string_ |-> string, name_ |-> name, graph_ |-> g]

(***************************************************************************)
(* AST to native tree (ast.rs, the TryFrom impls for Guard<bindings::_>).  *)
(* The fields are converted in the order of the `let` lines, the first     *)
(* error returns, and the constructor gets the converted values.           *)
(***************************************************************************)
\* ResourceConsumer::consume followed by ok_or_else: a null result is an error.
Consume(ptr, context) == IF ptr = Null THEN Err(NullPointer(context)) ELSE Ok(ptr)

\* to_c_string on the string as save_context leaves it: each marker replaced
\* by the content, here the empty one.
to_c_string_saved(str) ==
    LET c_str == CStringNew(Replace(str, INNER_PLACEHOLDER, << >>))
    IN  IF c_str.tag = "Err" THEN c_str
        ELSE Consume(make_LVar(c_str.val), "make_LVar returned null")

to_c_string(str) ==
    LET c_str == CStringNew(str)
    IN  IF c_str.tag = "Err" THEN c_str
        ELSE Consume(make_LVar(c_str.val), "make_LVar returned null")

RECURSIVE GraphIntoNative(_)
RECURSIVE BindingIntoNative(_)
RECURSIVE GraphBindingIntoNative(_)
RECURSIVE VertexIntoNative(_)
RECURSIVE NameIntoNative(_)

NameIntoNative(value) ==
    CASE value.kind = "Wildcard" ->
            Consume(make_NameWildcard, "make_NameWildcard returned null")
      [] value.kind = "VVar" ->
            LET v == to_c_string(value.value)
            IN  IF v.tag = "Err" THEN v
                ELSE Consume(make_NameVVar(v.val), "make_NameVVar returned null")
      [] value.kind = "GVar" ->
            LET v == to_c_string(value.value)
            IN  IF v.tag = "Err" THEN v
                ELSE Consume(make_NameGVar(v.val), "make_NameGVar returned null")
      [] value.kind = "QuoteGraph" ->
            LET g == GraphIntoNative(value.value)
            IN  IF g.tag = "Err" THEN g
                ELSE Consume(make_NameQuoteGraph(g.val),
                             "make_NameQuoteGraph returned null")
      [] value.kind = "QuoteVertex" ->
            LET vertex == VertexIntoNative(value.value)
            IN  IF vertex.tag = "Err" THEN vertex
                ELSE Consume(make_NameQuoteVertex(vertex.val),
                             "make_NameQuoteVertex returned null")

VertexIntoNative(value) ==
    LET name == NameIntoNative(value.name)
    IN  IF name.tag = "Err" THEN name
        ELSE Consume(make_VName(name.val), "make_VName returned null")

BindingIntoNative(value) ==
    LET g == GraphIntoNative(value.graph)
    IN  IF g.tag = "Err" THEN g
        ELSE LET var == to_c_string(value.var)
             IN  IF var.tag = "Err" THEN var
                 ELSE LET vertex == VertexIntoNative(value.vertex)
                      IN  IF vertex.tag = "Err" THEN vertex
                          ELSE Consume(make_VBind(var.val, vertex.val, g.val),
                                       "make_VBind returned null")

GraphBindingIntoNative(value) ==
    LET graph_1 == GraphIntoNative(value.graph_1)
    IN  IF graph_1.tag = "Err" THEN graph_1
        ELSE LET graph_2 == GraphIntoNative(value.graph_2)
             IN  IF graph_2.tag = "Err" THEN graph_2
                 ELSE LET var == to_c_string(value.var)
                      IN  IF var.tag = "Err" THEN var
                          ELSE Consume(make_GBind(var.val, graph_1.val, graph_2.val),
                                       "make_GBind returned null")

\* The Graph::EdgeAnon arm with the two bindings handed over in exchanged order.
EdgeAnonIntoNativeSwapped(value) ==
    LET binding_1 == BindingIntoNative(value.binding_1)
    IN  IF binding_1.tag = "Err" THEN binding_1
        ELSE LET binding_2 == BindingIntoNative(value.binding_2)
             IN  IF binding_2.tag = "Err" THEN binding_2
                 ELSE Consume(make_GEdgeAnon(binding_2.val, binding_1.val),
                              "make_GEdgeAnon returned null")

\* The Graph::EdgeAnon arm.
EdgeAnonIntoNative(value) ==
    LET binding_1 == BindingIntoNative(value.binding_1)
    IN  IF binding_1.tag = "Err" THEN binding_1
        ELSE LET binding_2 == BindingIntoNative(value.binding_2)
             IN  IF binding_2.tag = "Err" THEN binding_2
                 ELSE Consume(make_GEdgeAnon(binding_1.val, binding_2.val),
                              "make_GEdgeAnon returned null")

\* The arms of two graphs: RuleAnon and Tensor, which differ in the constructor.
TwoGraphsIntoNative(value) ==
    LET graph_1 == GraphIntoNative(value.graph_1)
    IN  IF graph_1.tag = "Err" THEN graph_1
        ELSE LET graph_2 == GraphIntoNative(value.graph_2)
             IN  IF graph_2.tag = "Err" THEN graph_2
                 ELSE IF value.kind = "RuleAnon"
                      THEN Consume(make_GRuleAnon(graph_1.val, graph_2.val),
                                   "make_GRuleAnon returned null")
                      ELSE Consume(make_GTensor(graph_1.val, graph_2.val),
                                   "make_GTensor returned null")

GraphIntoNative(value) ==
    CASE value.kind = "Nil" -> Consume(make_GNil, "make_GNil returned null")
      [] value.kind = "Vertex" ->
            LET g == GraphIntoNative(value.graph)
            IN  IF g.tag = "Err" THEN g
                ELSE LET vertex == VertexIntoNative(value.vertex)
                     IN  IF vertex.tag = "Err" THEN vertex
                         ELSE Consume(make_GVertex(vertex.val, g.val),
                                      "make_GVertex returned null")
      [] value.kind = "Var" ->
            LET g == GraphIntoNative(value.graph)
            IN  IF g.tag = "Err" THEN g
                ELSE LET var == to_c_string(value.var)
                     IN  IF var.tag = "Err" THEN var
                         ELSE Consume(make_GVar(var.val, g.val),
                                      "make_GVar returned null")
      [] value.kind = "Nominate" ->
            LET binding == BindingIntoNative(
                               Binding(value.graph, value.var, value.vertex))
            IN  IF binding.tag = "Err" THEN binding
                ELSE Consume(make_GNominate(binding.val),
                             "make_GNominate returned null")
      [] value.kind = "EdgeAnon" -> EdgeAnonIntoNative(value)
      [] value.kind = "EdgeNamed" ->
            LET binding_1 == BindingIntoNative(value.binding_1)
            IN  IF binding_1.tag = "Err" THEN binding_1
                ELSE LET binding_2 == BindingIntoNative(value.binding_2)
                     IN  IF binding_2.tag = "Err" THEN binding_2
                         ELSE LET name == NameIntoNative(value.name)
                              IN  IF name.tag = "Err" THEN name
                                  ELSE Consume(make_GEdgeNamed(name.val, binding_1.val,
                                                               binding_2.val),
                                               "make_GEdgeNamed returned null")
      [] value.kind \in {"RuleAnon", "Tensor"} -> TwoGraphsIntoNative(value)
      [] value.kind = "RuleNamed" ->
            LET graph_1 == GraphIntoNative(value.graph_1)
            IN  IF graph_1.tag = "Err" THEN graph_1
                ELSE LET graph_2 == GraphIntoNative(value.graph_2)
                     IN  IF graph_2.tag = "Err" THEN graph_2
                         ELSE LET name == NameIntoNative(value.name)
                              IN  IF name.tag = "Err" THEN name
                                  ELSE Consume(make_GRuleNamed(name.val, graph_1.val,
                                                               graph_2.val),
                                               "make_GRuleNamed returned null")
      [] value.kind = "Subgraph" ->
            LET graph_binding == GraphBindingIntoNative(
                                     [graph_1 |-> value.graph_1,
                                      graph_2 |-> value.graph_2, var |-> value.var])
            IN  IF graph_binding.tag = "Err" THEN graph_binding
                ELSE Consume(make_GSubgraph(graph_binding.val),
                             "make_GSubgraph returned null")
      [] value.kind = "Context" ->
            LET g == GraphIntoNative(value.graph)
            IN  IF g.tag = "Err" THEN g
                ELSE LET name == NameIntoNative(value.name)
                     IN  IF name.tag = "Err" THEN name
                         ELSE LET string == to_c_string(value.string)
                              IN  IF string.tag = "Err" THEN string
                                  ELSE Consume(make_GContext(string.val, name.val, g.val),
                                               "make_GContext returned null")

(***************************************************************************)
(* Native tree to AST (ast.rs, the TryFrom<bindings::_> impls).  A null    *)
(* pointer and an unknown kind are errors; the fields are read in the      *)
(* order of the `let` lines and the first error returns.                   *)
(***************************************************************************)
to_string(chars) ==
    IF IsUtf8(chars.chars) THEN Ok(chars.chars) ELSE Err(InvalidUtf8String)

RECURSIVE GraphFromNative(_)
RECURSIVE BindingFromNative(_)
RECURSIVE GraphBindingFromNative(_)
RECURSIVE VertexFromNative(_)
RECURSIVE NameFromNative(_)

NameFromNative(value) ==
    IF value = Null THEN Err(NullPointer("Name"))
    ELSE CASE value.kind = "is_NameWildcard" -> Ok(NameWildcard)
           [] value.kind = "is_NameVVar" ->
                LET v == to_string(value.lvar_)
                IN  IF v.tag = "Err" THEN v ELSE Ok(NameVVar(v.val))
           [] value.kind = "is_NameGVar" ->
                LET v == to_string(value.uvar_)
                IN  IF v.tag = "Err" THEN v ELSE Ok(NameGVar(v.val))
           [] value.kind = "is_NameQuoteGraph" ->
                LET g == GraphFromNative(value.graph_)
                IN  IF g.tag = "Err" THEN g ELSE Ok(NameQuoteGraph(g.val))
           [] value.kind = "is_NameQuoteVertex" ->
                LET v == VertexFromNative(value.vertex_)
                IN  IF v.tag = "Err" THEN v ELSE Ok(NameQuoteVertex(v.val))
           [] OTHER -> Err(InvalidVariant("Name"))

\* VertexFromNative reading the name whatever the kind tag says.
VertexFromNativeAnyKind(value) ==
    IF value = Null THEN Err(NullPointer("Vertex"))
    ELSE LET name == NameFromNative(value.name_)
         IN  IF name.tag = "Err" THEN name ELSE Ok(Vertex(name.val))

VertexFromNative(value) ==
    IF value = Null THEN Err(NullPointer("Vertex"))
    ELSE CASE value.kind = "is_VName" ->
                LET name == NameFromNative(value.name_)
                IN  IF name.tag = "Err" THEN name ELSE Ok(Vertex(name.val))
           [] OTHER -> Err(InvalidVariant("Vertex"))

BindingFromNative(value) ==
    IF value = Null THEN Err(NullPointer("Binding"))
    ELSE CASE value.kind = "is_VBind" ->
                LET g == GraphFromNative(value.graph_)
                IN  IF g.tag = "Err" THEN g
                    ELSE LET var == to_string(value.lvar_)
                         IN  IF var.tag = "Err" THEN var
                             ELSE LET vertex == VertexFromNative(value.vertex_)
                                  IN  IF vertex.tag = "Err" THEN vertex
                                      ELSE Ok(Binding(g.val, var.val, vertex.val))
           [] OTHER -> Err(InvalidVariant("Binding"))

\* GraphBindingFromNative with graph_1 and graph_2 read into each other's place.
GraphBindingFromNativeSwapped(value) ==
    IF value = Null THEN Err(NullPointer("GraphBinding"))
    ELSE IF value.kind # "is_GBind" THEN Err(InvalidVariant("GraphBinding"))
    ELSE LET graph_1 == GraphFromNative(value.graph_1)
             graph_2 == GraphFromNative(value.graph_2)
             var == to_string(value.uvar_)
         IN  IF graph_1.tag = "Err" THEN graph_1
             ELSE IF graph_2.tag = "Err" THEN graph_2
             ELSE IF var.tag = "Err" THEN var
             ELSE Ok([graph_1 |-> graph_2.val, graph_2 |-> graph_1.val,
                      var |-> var.val])

GraphBindingFromNative(value) ==
    IF value = Null THEN Err(NullPointer("GraphBinding"))
    ELSE CASE value.kind = "is_GBind" ->
                LET graph_1 == GraphFromNative(value.graph_1)
                IN  IF graph_1.tag = "Err" THEN graph_1
                    ELSE LET graph_2 == GraphFromNative(value.graph_2)
                         IN  IF graph_2.tag = "Err" THEN graph_2
                             ELSE LET var == to_string(value.uvar_)
                                  IN  IF var.tag = "Err" THEN var
                                      ELSE Ok([graph_1 |-> graph_1.val,
                                               graph_2 |-> graph_2.val,
                                               var |-> var.val])
           [] OTHER -> Err(InvalidVariant("GraphBinding"))

\* GraphFromNative with the GNil arm answering a Var node over Nil.
GraphFromNativeNilAsVar(value) ==
    IF value # Null /\ value.kind = "is_GNil" THEN Ok(GVar(Nil, << >>))
    ELSE Err(InvalidVariant("Graph"))

GraphFromNative(value) ==
    IF value = Null THEN Err(NullPointer("Graph"))
    ELSE CASE value.kind = "is_GNil" -> Ok(Nil)
           [] value.kind = "is_GVertex" ->
                LET g == GraphFromNative(value.graph_)
                IN  IF g.tag = "Err" THEN g
                    ELSE LET vertex == VertexFromNative(value.vertex_)
                         IN  IF vertex.tag = "Err" THEN vertex
                             ELSE Ok(GVertex(g.val, vertex.val))
           [] value.kind = "is_GVar" ->
                LET g == GraphFromNative(value.graph_)
                IN  IF g.tag = "Err" THEN g
                    ELSE LET var == to_string(value.lvar_)
                         IN  IF var.tag = "Err" THEN var
                             ELSE Ok(GVar(g.val, var.val))
           [] value.kind = "is_GNominate" ->
                LET binding == BindingFromNative(value.binding_)
                IN  IF binding.tag = "Err" THEN binding
                    ELSE Ok(Nominate(binding.val))
           [] value.kind = "is_GEdgeAnon" ->
                LET binding_1 == BindingFromNative(value.binding_1)
                IN  IF binding_1.tag = "Err" THEN binding_1
                    ELSE LET binding_2 == BindingFromNative(value.binding_2)
                         IN  IF binding_2.tag = "Err" THEN binding_2
                             ELSE Ok(GEdgeAnon(binding_1.val, binding_2.val))
           [] value.kind = "is_GEdgeNamed" ->
                LET name == NameFromNative(value.name_)
                IN  IF name.tag = "Err" THEN name
                    ELSE LET binding_1 == BindingFromNative(value.binding_1)
                         IN  IF binding_1.tag = "Err" THEN binding_1
                             ELSE LET binding_2 == BindingFromNative(value.binding_2)
                                  IN  IF binding_2.tag = "Err" THEN binding_2
                                      ELSE Ok(GEdgeNamed(binding_1.val, binding_2.val,
                                                         name.val))
           [] value.kind \in {"is_GRuleAnon", "is_GTensor"} ->
                LET graph_1 == GraphFromNative(value.graph_1)
                IN  IF graph_1.tag = "Err" THEN graph_1
                    ELSE LET graph_2 == GraphFromNative(value.graph_2)
                         IN  IF graph_2.tag = "Err" THEN graph_2
                             ELSE IF value.kind = "is_GRuleAnon"
                                  THEN Ok(GRuleAnon(graph_1.val, graph_2.val))
                                  ELSE Ok(GTensor(graph_1.val, graph_2.val))
           [] value.kind = "is_GRuleNamed" ->
                LET name == NameFromNative(value.name_)
                IN  IF name.tag = "Err" THEN name
                    ELSE LET graph_1 == GraphFromNative(value.graph_1)
                         IN  IF graph_1.tag = "Err" THEN graph_1
                             ELSE LET graph_2 == GraphFromNative(value.graph_2)
                                  IN  IF graph_2.tag = "Err" THEN graph_2
                                      ELSE Ok(GRuleNamed(graph_1.val, graph_2.val,
                                                         name.val))
           [] value.kind = "is_GSubgraph" ->
                LET subgraph == GraphBindingFromNative(value.graphbinding_)
                IN  IF subgraph.tag = "Err" THEN subgraph
                    ELSE Ok(Subgraph(subgraph.val.graph_1, subgraph.val.graph_2,
                                     subgraph.val.var))
           [] value.kind = "is_GContext" ->
                LET name == NameFromNative(value.name_)
                IN  IF name.tag = "Err" THEN name
                    ELSE LET g == GraphFromNative(value.graph_)
                         IN  IF g.tag = "Err" THEN g
                             ELSE LET string == to_string(value.string_)
                                  IN  IF string.tag = "Err" THEN string
                                      ELSE Ok(GContext(g.val, name.val, string.val))
           [] OTHER -> Err(InvalidVariant("Graph"))

(***************************************************************************)
(* The concrete syntax: the productions whose surface form is fixed.       *)
(*                                                                         *)
(*   Graph   ::= "context" String "for" Name "in" Graph  |  Graph1         *)
(*   Graph1  ::= "0"  |  Vertex "|" Graph1  |  LVar "|" Graph1             *)
(*            |  Binding  |  "(" Binding "," Binding ")"  |  "{" Graph "}" *)
(*   Binding ::= "let" LVar "=" Vertex "in" Graph1                         *)
(*   Vertex  ::= "<" Name ">"                                              *)
(*   Name    ::= LVar  |  UVar                                             *)
(*                                                                         *)
(* The lexer and the parser (psGraph) read it, the printer (printGraph)    *)
(* writes it: every token followed by a blank, a Graph in a Graph1         *)
(* position inside braces.                                                 *)
(***************************************************************************)
Lower ==
    {"a", "b", "c", "d", "e", "f", "g", "h", "i", "j", "k", "l", "m", "n", "o",
     "p", "q", "r", "s", "t", "u", "v", "w", "x", "y", "z"}

Upper ==
    {"A", "B", "C", "D", "E", "F", "G", "H", "I", "J", "K", "L", "M", "N", "O",
     "P", "Q", "R", "S", "T", "U", "V", "W", "X", "Y", "Z"}

Digit == {"0", "1", "2", "3", "4", "5", "6", "7", "8", "9"}

Space == {" ", "\t", "\n"}

Symbols == {"0", "<", ">", "|", "(", ")", "{", "}", ",", "="}

Token(t, v) == [t |-> t, v |-> v]

Sym(c) == Token("sym", <<c>>)

KwLet == Token("kw", <<"l", "e", "t">>)

KwIn == Token("kw", <<"i", "n">>)

KwContext == Token("kw", <<"c", "o", "n", "t", "e", "x", "t">>)

KwFor == Token("kw", <<"f", "o", "r">>)

Keywords == {KwLet.v, KwIn.v, KwContext.v, KwFor.v}

IdentChars == Lower \cup Upper \cup Digit \cup {"_"}

\* Position i is inside a string literal or is its closing quote.
InString(chars, i) ==
    Cardinality({ j \in 1..(i - 1) : chars[j] = Quote }) % 2 = 1

\* The first position of the run of identifier characters that holds position i.
WordStart(chars, i) ==
    CHOOSE j \in 1..i :
        /\ \A k \in j..i : chars[k] \in IdentChars
        /\ j = 1 \/ chars[j - 1] \notin IdentChars

\* The last position of the run of identifier characters that holds position i.
WordEnd(chars, i) ==
    CHOOSE j \in i..Len(chars) :
        /\ \A k \in i..j : chars[k] \in IdentChars
        /\ j = Len(chars) \/ chars[j + 1] \notin IdentChars

\* The positions where a token starts: outside strings, not a blank, and not
\* the continuation of an identifier.
TokenStarts(chars) ==
    { i \in 1..Len(chars) :
        /\ ~InString(chars, i)
        /\ chars[i] \notin Space
        /\ chars[i] \in IdentChars =>
              \/ WordStart(chars, i) = i
              \/ chars[WordStart(chars, i)] \notin Lower \cup Upper }

\* The token that starts at position i.
TokenAt(chars, i) ==
    LET c == chars[i]
    IN  CASE c \in Symbols -> Sym(c)
          [] c = Quote ->
                LET closing == { j \in (i + 1)..Len(chars) : chars[j] = Quote }
                IN  IF closing = {} THEN Token("bad", <<c>>)
                    ELSE Token("str",
                               SubSeq(chars, i + 1,
                                      (CHOOSE j \in closing :
                                           \A k \in closing : j <= k) - 1))
          [] c \in Lower \cup Upper ->
                LET w == SubSeq(chars, i, WordEnd(chars, i))
                IN  Token(IF w \in Keywords THEN "kw"
                          ELSE IF c \in Lower THEN "lvar" ELSE "uvar", w)
          [] OTHER -> Token("bad", <<c>>)

\* The tokens of the text, in the order of their positions.
Lex(chars) ==
    LET starts == TokenStarts(chars)
    IN  [k \in 1..Cardinality(starts) |->
            TokenAt(chars, CHOOSE p \in starts :
                               Cardinality({ q \in starts : q <= p }) = k)]

\* A parse of a prefix of the tokens: the node built and the tokens left.
Accept(val, rest) == [ok |-> TRUE, val |-> val, rest |-> rest]

Reject == [ok |-> FALSE, val |-> Null, rest |-> << >>]

Drop(ts, n) == SubSeq(ts, n + 1, Len(ts))

Starts(ts, token) == ts # << >> /\ Head(ts) = token

ParseName(ts) ==
    IF ts # << >> /\ Head(ts).t = "lvar"
    THEN Accept(make_NameVVar(make_LVar(Head(ts).v)), Tail(ts))
    ELSE IF ts # << >> /\ Head(ts).t = "uvar"
    THEN Accept(make_NameGVar(make_LVar(Head(ts).v)), Tail(ts))
    ELSE Reject

ParseVertex(ts) ==
    IF ~Starts(ts, Sym("<")) THEN Reject
    ELSE LET name == ParseName(Tail(ts))
         IN  IF name.ok /\ Starts(name.rest, Sym(">"))
             THEN Accept(make_VName(name.val), Tail(name.rest))
             ELSE Reject

RECURSIVE ParseGraph(_)
RECURSIVE ParseGraph1(_)
RECURSIVE ParseBinding(_)

ParseBinding(ts) ==
    IF Len(ts) >= 3 /\ ts[1] = KwLet /\ ts[2].t = "lvar" /\ ts[3] = Sym("=")
    THEN LET vertex == ParseVertex(Drop(ts, 3))
         IN  IF vertex.ok /\ Starts(vertex.rest, KwIn)
             THEN LET g == ParseGraph1(Tail(vertex.rest))
                  IN  IF g.ok
                      THEN Accept(make_VBind(make_LVar(ts[2].v), vertex.val, g.val),
                                  g.rest)
                      ELSE Reject
             ELSE Reject
    ELSE Reject

ParseGraph1(ts) ==
    IF ts = << >> THEN Reject
    ELSE CASE Head(ts) = Sym("0") -> Accept(make_GNil, Tail(ts))
           [] Head(ts) = Sym("<") ->
                LET vertex == ParseVertex(ts)
                IN  IF vertex.ok /\ Starts(vertex.rest, Sym("|"))
                    THEN LET g == ParseGraph1(Tail(vertex.rest))
                         IN  IF g.ok THEN Accept(make_GVertex(vertex.val, g.val), g.rest)
                             ELSE Reject
                    ELSE Reject
           [] Head(ts).t = "lvar" ->
                IF Starts(Tail(ts), Sym("|"))
                THEN LET g == ParseGraph1(Drop(ts, 2))
                     IN  IF g.ok
                         THEN Accept(make_GVar(make_LVar(Head(ts).v), g.val), g.rest)
                         ELSE Reject
                ELSE Reject
           [] Head(ts) = KwLet ->
                LET binding == ParseBinding(ts)
                IN  IF binding.ok THEN Accept(make_GNominate(binding.val), binding.rest)
                    ELSE Reject
           [] Head(ts) = Sym("(") ->
                LET binding_1 == ParseBinding(Tail(ts))
                IN  IF binding_1.ok /\ Starts(binding_1.rest, Sym(","))
                    THEN LET binding_2 == ParseBinding(Tail(binding_1.rest))
                         IN  IF binding_2.ok /\ Starts(binding_2.rest, Sym(")"))
                             THEN Accept(make_GEdgeAnon(binding_1.val, binding_2.val),
                                         Tail(binding_2.rest))
                             ELSE Reject
                    ELSE Reject
           [] Head(ts) = Sym("{") ->
                LET g == ParseGraph(Tail(ts))
                IN  IF g.ok /\ Starts(g.rest, Sym("}"))
                    THEN Accept(g.val, Tail(g.rest))
                    ELSE Reject
           [] OTHER -> Reject

ParseGraph(ts) ==
    IF Starts(ts, KwContext)
    THEN IF Len(ts) >= 3 /\ ts[2].t = "str" /\ ts[3] = KwFor
         THEN LET name == ParseName(Drop(ts, 3))
              IN  IF name.ok /\ Starts(name.rest, KwIn)
                  THEN LET g == ParseGraph(Tail(name.rest))
                       IN  IF g.ok
                           THEN Accept(make_GContext(make_LVar(ts[2].v), name.val,
                                                     g.val), g.rest)
                           ELSE Reject
                  ELSE Reject
         ELSE Reject
    ELSE ParseGraph1(ts)

\* psGraph: the tree of the whole text, or null when the text is no Graph.
psGraph(chars) ==
    LET g == ParseGraph(Lex(chars))
    IN  IF g.ok /\ g.rest = << >> THEN g.val ELSE Null

\* `tokens` between braces when `braces` holds.
Braced(braces, tokens) ==
    IF braces THEN <<Sym("{")>> \o tokens \o <<Sym("}")>> ELSE tokens

ppName(p) ==
    IF p.kind = "is_NameVVar" THEN <<Token("lvar", p.lvar_.chars)>>
    ELSE <<Token("uvar", p.uvar_.chars)>>

ppVertex(p) == <<Sym("<")>> \o ppName(p.name_) \o <<Sym(">")>>

RECURSIVE ppGraph(_, _)
RECURSIVE ppBinding(_)

ppBinding(p) ==
    <<KwLet, Token("lvar", p.lvar_.chars), Sym("=")>> \o ppVertex(p.vertex_)
    \o <<KwIn>> \o ppGraph(p.graph_, 1)

ppGraph(p, level) ==
    CASE p.kind = "is_GNil" -> <<Sym("0")>>
      [] p.kind = "is_GVertex" ->
            ppVertex(p.vertex_) \o <<Sym("|")>> \o ppGraph(p.graph_, 1)
      [] p.kind = "is_GVar" ->
            <<Token("lvar", p.lvar_.chars), Sym("|")>> \o ppGraph(p.graph_, 1)
      [] p.kind = "is_GNominate" -> ppBinding(p.binding_)
      [] p.kind = "is_GEdgeAnon" ->
            <<Sym("(")>> \o ppBinding(p.binding_1) \o <<Sym(",")>>
            \o ppBinding(p.binding_2) \o <<Sym(")")>>
      [] p.kind = "is_GContext" ->
            Braced(level > 0,
                   <<KwContext, Token("str", p.string_.chars), KwFor>>
                   \o ppName(p.name_) \o <<KwIn>> \o ppGraph(p.graph_, 0))

\* The characters of the tokens, each followed by a blank.
RECURSIVE Render(_)
Render(tokens) ==
    IF tokens = << >> THEN << >>
    ELSE IF Len(tokens) = 1
    THEN (IF tokens[1].t = "str" THEN <<Quote>> \o tokens[1].v \o <<Quote>>
          ELSE tokens[1].v) \o <<" ">>
    ELSE LET half == Len(tokens) \div 2
         IN  Render(SubSeq(tokens, 1, half))
             \o Render(SubSeq(tokens, half + 1, Len(tokens)))

\* The pointer printGraph returns: the start of the printer's buffer.
BufPtr == [kind |-> "buf_"]

\* printGraph: the text is left in the buffer and a pointer to it returned.
printGraph(p) == [ptr |-> BufPtr, buf |-> Render(ppGraph(p, 0))]

\* bufReset: the buffer is emptied.
bufReset == << >>

(***************************************************************************)
(* The texts handed to the first parse_to_ast: the source of the           *)
(* round-trip test of ast.rs, the texts of print.rs, and every graph of at *)
(* most MaxNodes nodes written with each continuation inside braces.       *)
(***************************************************************************)
IdA == <<"a">>

IdB == <<"b">>

IdE1 == <<"e", "1">>

IdF == <<"f">>

IdN == <<"n">>

StrFoo == <<"f", "o", "o">>

\* < a > | { context "foo" for f in 0 }
CurlyBracesSource ==
    <<"<", " ", "a", " ", ">", " ", "|", " ", "{", " ",
      "c", "o", "n", "t", "e", "x", "t", " ", Quote, "f", "o", "o", Quote, " ",
      "f", "o", "r", " ", "f", " ", "i", "n", " ", "0", " ", "}">>

\* {0}
PrintNilSource == <<"{", "0", "}">>

WrittenVertex(v) == <<Sym("<"), Token("lvar", v.name.value), Sym(">")>>

RECURSIVE Written(_)
WrittenBinding(binding) ==
    <<KwLet, Token("lvar", binding.var), Sym("=")>> \o WrittenVertex(binding.vertex)
    \o <<KwIn>> \o Braced(TRUE, Written(binding.graph))

Written(g) ==
    CASE g.kind = "Nil" -> <<Sym("0")>>
      [] g.kind = "Vertex" ->
            WrittenVertex(g.vertex) \o <<Sym("|")>> \o Braced(TRUE, Written(g.graph))
      [] g.kind = "Var" ->
            <<Token("lvar", g.var), Sym("|")>> \o Braced(TRUE, Written(g.graph))
      [] g.kind = "Nominate" -> WrittenBinding(g)
      [] g.kind = "EdgeAnon" ->
            <<Sym("(")>> \o WrittenBinding(g.binding_1) \o <<Sym(",")>>
            \o WrittenBinding(g.binding_2) \o <<Sym(")")>>
      [] g.kind = "Context" ->
            <<KwContext, Token("str", g.string), KwFor, Token("lvar", g.name.value),
              KwIn>> \o Braced(TRUE, Written(g.graph))

RECURSIVE SourceGraphsOfSize(_)
SourceGraphsOfSize(size) ==
    IF size = 1 THEN {Nil}
    ELSE UNION { { GVertex(g, Vertex(NameVVar(IdA))),
                   GVar(g, IdE1),
                   Nominate(Binding(g, IdN, Vertex(NameVVar(IdB)))),
                   GContext(g, NameVVar(IdF), StrFoo) }
                 : g \in SourceGraphsOfSize(size - 1) }
         \cup UNION { { GEdgeAnon(Binding(g1, IdA, Vertex(NameVVar(IdA))),
                                  Binding(g2, IdB, Vertex(NameVVar(IdB))))
                        : g1 \in SourceGraphsOfSize(i),
                          g2 \in SourceGraphsOfSize(size - 1 - i) }
                      : i \in 1..(size - 2) }

\* Context strings that hold the marker: alone, twice, and inside other text.
PlaceholderStrings ==
    { INNER_PLACEHOLDER,
      INNER_PLACEHOLDER \o INNER_PLACEHOLDER,
      <<"a", " ">> \o INNER_PLACEHOLDER \o <<" ", "b">>,
      <<"{", " ">> \o INNER_PLACEHOLDER \o <<" ", "}">> }

PlaceholderSources ==
    UNION { { Render(Written(GContext(Nil, NameVVar(IdF), str))),
              Render(Written(GVertex(GContext(GVar(Nil, IdE1), NameVVar(IdF), str),
                                     Vertex(NameVVar(IdA))))) }
            : str \in PlaceholderStrings }

Sources ==
    {CurlyBracesSource, PrintNilSource}
    \cup PlaceholderSources
    \cup { Render(Written(g)) : g \in UNION { SourceGraphsOfSize(size)
                                              : size \in 1..MaxNodes } }

(***************************************************************************)
(* The native allocations and their guards (guard.rs).  Every pointer a    *)
(* make_* constructor returns is put in a Guard; a Guard that is dropped   *)
(* hands its pointer to the free_* function of its type, and a Guard that  *)
(* is handed to std::mem::forget does not.  The constructors and the       *)
(* free_* functions belong to the native library: a constructor owns the   *)
(* pointers it was given, free_* frees the allocation with all it owns,    *)
(* and a constructor that cannot allocate returns null.                    *)
(***************************************************************************)
\* The allocation `id` with everything its constructor was handed, in depth.
RECURSIVE Owned(_, _)
Owned(h, id) == {id} \cup UNION {Owned(h, part) : part \in h.made[id].parts}

\* free_*(id): the allocation and all it owns are freed, each once more.
Free(h, id) ==
    [h EXCEPT !.made = [i \in DOMAIN h.made |->
                            IF i \in Owned(h, id)
                            THEN [h.made[i] EXCEPT !.freed = @ + 1]
                            ELSE h.made[i]]]

\* Guard::drop: self.value.release().
DropGuard(h, id) ==
    [Free(h, id) EXCEPT !.dropped = Append(@, [fn |-> h.made[id].fn, ptr |-> id])]

\* Only the guard declared last is dropped.
DropLast(h, guards) ==
    IF guards = << >> THEN h ELSE DropGuard(h, guards[Len(guards)])

\* The guards of a scope that ends, dropped in the reverse of the order they
\* were declared in.
RECURSIVE DropAll(_, _)
DropAll(h, guards) ==
    IF guards = << >> THEN h
    ELSE DropAll(DropGuard(h, guards[Len(guards)]),
                 SubSeq(guards, 1, Len(guards) - 1))

\* A make_* call of the native library: the pointer to a new allocation that
\* owns `parts`, or null (0) when the call is the one that cannot allocate.
Make(h, type, parts) ==
    LET called == [h EXCEPT !.calls = @ + 1]
    IN  IF called.calls = h.fail_at
        THEN [ptr |-> 0, heap |-> called]
        ELSE [ptr |-> Len(h.made) + 1,
              heap |-> [called EXCEPT !.made =
                            Append(@, [fn |-> "free_" \o type,
                                       parts |-> {parts[i] : i \in DOMAIN parts},
                                       freed |-> 0])]]

\* consume with every guard forgotten, whatever the constructor returned.
ConsumeForgetting(h, type, make, guards) ==
    LET result == Make(h, type, guards)
    IN  IF result.ptr = 0
        THEN [res |-> Err(NullPointer(make \o " returned null")),
              heap |-> result.heap]
        ELSE [res |-> Ok(result.ptr), heap |-> result.heap]

\* ResourceConsumer::consume and ok_or_else: the constructor is called with the
\* guarded pointers; on null the guards go out of scope and are dropped, else
\* each is forgotten and the result is guarded.  With no guards this is the
\* null check after make_GNil, make_NameWildcard and make_LVar.
ConsumeGuards(h, type, make, guards) ==
    LET result == Make(h, type, guards)
    IN  IF result.ptr = 0
        THEN [res |-> Err(NullPointer(make \o " returned null")),
              heap |-> DropAll(result.heap, guards)]
        ELSE [res |-> Ok(result.ptr), heap |-> result.heap]

\* A field to convert: the native type it becomes and its value.
Field(type, value) == [type |-> type, value |-> value]

\* An arm of a TryFrom impl for a Guard: the fields in the order of the `let`
\* lines, the constructor, and the places of the fields in the tuple that
\* is consumed.
Arm(make, lets, tuple) == [make |-> make, lets |-> lets, tuple |-> tuple]

ArmOf(type, value) ==
    CASE type = "Name" /\ value.kind = "Wildcard" ->
            Arm("make_NameWildcard", << >>, << >>)
      [] type = "Name" /\ value.kind = "VVar" ->
            Arm("make_NameVVar", <<Field("LVar", value.value)>>, <<1>>)
      [] type = "Name" /\ value.kind = "GVar" ->
            Arm("make_NameGVar", <<Field("LVar", value.value)>>, <<1>>)
      [] type = "Name" /\ value.kind = "QuoteGraph" ->
            Arm("make_NameQuoteGraph", <<Field("Graph", value.value)>>, <<1>>)
      [] type = "Name" /\ value.kind = "QuoteVertex" ->
            Arm("make_NameQuoteVertex", <<Field("Vertex", value.value)>>, <<1>>)
      [] type = "Vertex" ->
            Arm("make_VName", <<Field("Name", value.name)>>, <<1>>)
      [] type = "Binding" ->
            Arm("make_VBind",
                <<Field("Graph", value.graph), Field("LVar", value.var),
                  Field("Vertex", value.vertex)>>,
                <<2, 3, 1>>)
      [] type = "GraphBinding" ->
            Arm("make_GBind",
                <<Field("Graph", value.graph_1), Field("Graph", value.graph_2),
                  Field("LVar", value.var)>>,
                <<3, 1, 2>>)
      [] type = "Graph" /\ value.kind = "Nil" -> Arm("make_GNil", << >>, << >>)
      [] type = "Graph" /\ value.kind = "Vertex" ->
            Arm("make_GVertex",
                <<Field("Graph", value.graph), Field("Vertex", value.vertex)>>,
                <<2, 1>>)
      [] type = "Graph" /\ value.kind = "Var" ->
            Arm("make_GVar",
                <<Field("Graph", value.graph), Field("LVar", value.var)>>,
                <<2, 1>>)
      [] type = "Graph" /\ value.kind = "Nominate" ->
            Arm("make_GNominate",
                <<Field("Binding",
                        Binding(value.graph, value.var, value.vertex))>>,
                <<1>>)
      [] type = "Graph" /\ value.kind = "EdgeAnon" ->
            Arm("make_GEdgeAnon",
                <<Field("Binding", value.binding_1),
                  Field("Binding", value.binding_2)>>,
                <<1, 2>>)
      [] type = "Graph" /\ value.kind = "EdgeNamed" ->
            Arm("make_GEdgeNamed",
                <<Field("Binding", value.binding_1),
                  Field("Binding", value.binding_2), Field("Name", value.name)>>,
                <<3, 1, 2>>)
      [] type = "Graph" /\ value.kind = "RuleAnon" ->
            Arm("make_GRuleAnon",
                <<Field("Graph", value.graph_1), Field("Graph", value.graph_2)>>,
                <<1, 2>>)
      [] type = "Graph" /\ value.kind = "RuleNamed" ->
            Arm("make_GRuleNamed",
                <<Field("Graph", value.graph_1), Field("Graph", value.graph_2),
                  Field("Name", value.name)>>,
                <<3, 1, 2>>)
      [] type = "Graph" /\ value.kind = "Subgraph" ->
            Arm("make_GSubgraph",
                <<Field("GraphBinding",
                        [graph_1 |-> value.graph_1, graph_2 |-> value.graph_2,
                         var |-> value.var])>>,
                <<1>>)
      [] type = "Graph" /\ value.kind = "Tensor" ->
            Arm("make_GTensor",
                <<Field("Graph", value.graph_1), Field("Graph", value.graph_2)>>,
                <<1, 2>>)
      [] type = "Graph" /\ value.kind = "Context" ->
            Arm("make_GContext",
                <<Field("Graph", value.graph), Field("Name", value.name),
                  Field("LVar", value.string)>>,
                <<3, 2, 1>>)

\* try_from / to_c_string with the allocations they make: the fields become
\* guards one after the other; the first error returns with `?`, which drops
\* the guards made so far; then the guards are consumed by the constructor.
RECURSIVE IntoGuard(_, _, _)
RECURSIVE FieldsIntoGuards(_, _, _)

FieldsIntoGuards(lets, guards, h) ==
    IF Len(guards) = Len(lets) THEN [res |-> Ok(guards), heap |-> h]
    ELSE LET field == lets[Len(guards) + 1]
             guard == IntoGuard(field.type, field.value, h)
         IN  IF guard.res.tag = "Err"
             THEN [res |-> guard.res, heap |-> DropAll(guard.heap, guards)]
             ELSE FieldsIntoGuards(lets, Append(guards, guard.res.val), guard.heap)

IntoGuard(type, value, h) ==
    IF type = "LVar"
    THEN LET var == to_c_string(value)
         IN  IF var.tag = "Err" THEN [res |-> var, heap |-> h]
             ELSE ConsumeGuards(h, "LVar", "make_LVar", << >>)
    ELSE LET arm == ArmOf(type, value)
             guards == FieldsIntoGuards(arm.lets, << >>, h)
         IN  IF guards.res.tag = "Err" THEN guards
             ELSE ConsumeGuards(guards.heap, type, arm.make,
                                [i \in DOMAIN arm.tuple |->
                                     guards.res.val[arm.tuple[i]]])

(***************************************************************************)
(* The round trip of test_curly_braces_are_correctly_inserted (ast.rs):    *)
(* parse_to_ast, ast_to_graphl of the result, parse_to_ast of the text.    *)
(* Each action is one step of parse_to_ast or of ast_to_graphl (lib.rs).   *)
(***************************************************************************)
RoundTripInit ==
    /\ graph = Nil
    /\ visitor = "FoldVisitor"
    /\ initial_accumulator = InitialAccumulator(visitor)
    /\ pc = "idle"
    /\ stack = << >>
    /\ accumulator = initial_accumulator
    /\ calls = << >>
    /\ lpc = "parse"
    /\ round = 1
    /\ code \in Sources
    /\ parse_graph = NoValue
    /\ parsed = NoValue
    /\ ast = NoValue
    /\ ast_guard = NoValue
    /\ graphl = NoValue
    /\ buf = << >>
    /\ printed_graphl = NoValue
    /\ released = << >>
    /\ buf_of = 0
    /\ OtherIdle

\* A guard handed to std::mem::forget: no release call is made.
Forgotten(fn, ptr) == released

\* Guard::drop: the guarded pointer is handed to the release function.
Release(fn, ptr) == Append(released, [fn |-> fn, ptr |-> ptr])

\* What bindings::psGraph hands back.  The native library is foreign code: it
\* may be built from a grammar whose kind tags bindings.rs does not know, or
\* leave a child pointer null; the readers of ast.rs have an arm for each.
Returned(tree) ==
    IF tree = Null \/ parser_fault = "none" THEN tree
    ELSE IF parser_fault = "unknown_kind" THEN [tree EXCEPT !.kind = "is_GUnknown"]
    ELSE IF "graph_" \in DOMAIN tree THEN [tree EXCEPT !.graph_ = Null]
    ELSE tree

\* parse_to_ast, CString::new and psGraph: a 0 byte returns the error, else
\* the parser's result is put under a guard.
ParseCall ==
    /\ lpc = "parse"
    /\ LET c_code == CStringNew(code)
       IN  IF c_code.tag = "Err"
           THEN /\ parsed' = c_code
                /\ lpc' = "parsed"
                /\ UNCHANGED parse_graph
           ELSE /\ parse_graph' = Returned(psGraph(c_code.val))
                /\ lpc' = "check"
                /\ UNCHANGED parsed
    /\ UNCHANGED <<round, code, ast, ast_guard, graphl, buf, printed_graphl, released>>
    /\ UNCHANGED <<buf_of, walkerVars, otherVars>>

\* parse_to_ast, the null check and `(*graph).try_into()`.
ParseConvert ==
    /\ lpc = "check"
    /\ parsed' = IF parse_graph = Null THEN Err(InvalidGraphL)
                 ELSE GraphFromNative(parse_graph)
    /\ lpc' = "drop"
    /\ UNCHANGED <<round, code, parse_graph, ast, ast_guard, graphl, buf,
                   printed_graphl, released>>
    /\ UNCHANGED <<buf_of, walkerVars, otherVars>>

\* parse_to_ast returns: the guard `graph` is dropped.
ParseDrop ==
    /\ lpc = "drop"
    /\ released' = Release("free_Graph", parse_graph)
    /\ parse_graph' = NoValue
    /\ lpc' = "parsed"
    /\ UNCHANGED <<round, code, parsed, ast, ast_guard, graphl, buf, printed_graphl>>
    /\ UNCHANGED <<buf_of, walkerVars, otherVars>>

\* The caller unwraps the parse: the first becomes `ast`, the second ends the
\* round trip.
UnwrapAst ==
    /\ lpc = "parsed"
    /\ IF round = 1 /\ parsed.tag = "Ok"
       THEN /\ ast' = parsed.val
            /\ lpc' = "into"
       ELSE /\ lpc' = "end"
            /\ UNCHANGED ast
    /\ UNCHANGED <<round, code, parse_graph, parsed, ast_guard, graphl, buf,
                   printed_graphl, released>>
    /\ UNCHANGED <<buf_of, walkerVars, otherVars>>

\* ast_to_graphl, `ast.try_into()?`.
IntoNative ==
    /\ lpc = "into"
    /\ LET native == GraphIntoNative(ast)
           guard == IntoGuard("Graph", ast, heap)
       IN  IF guard.res.tag = "Err"
           THEN /\ printed_graphl' = guard.res
                /\ heap' = guard.heap
                /\ lpc' = "printed"
                /\ UNCHANGED ast_guard
           ELSE /\ ast_guard' = native.val
                /\ heap' = [guard.heap EXCEPT
                                !.guards = @ \cup {[call |-> self,
                                                    ptr |-> guard.res.val]}]
                /\ lpc' = "print"
                /\ UNCHANGED printed_graphl
    /\ UNCHANGED <<round, code, parse_graph, parsed, ast, graphl, buf, released>>
    /\ UNCHANGED <<buf_of, walkerVars, parser_fault, self, suspended, builderVars,
                   consumed, context_cell>>

\* What bindings::printGraph hands back: the pointer into the buffer it has
\* filled, or null with the buffer as it was when the printer gives up.
PrintReturned(result) ==
    IF parser_fault = "print_null" THEN [ptr |-> Null, buf |-> buf] ELSE result

\* ast_to_graphl, printGraph and the null check.
PrintGraph ==
    /\ lpc = "print"
    /\ LET result == PrintReturned(printGraph(ast_guard))
       IN  /\ graphl' = result.ptr
           /\ buf' = result.buf
           /\ buf_of' = self
           /\ IF result.ptr = Null
              THEN /\ printed_graphl' = Err(InvalidGraphL)
                   /\ lpc' = "release"
              ELSE /\ lpc' = "copy"
                   /\ UNCHANGED printed_graphl
    /\ UNCHANGED <<round, code, parse_graph, parsed, ast, ast_guard, released>>
    /\ UNCHANGED <<walkerVars, otherVars>>

\* CStrFromPtr once the printer has emptied its buffer.
CStrAfterReset(ptr) == {bufReset}

\* CStr::from_ptr(graphl): the texts a read through `graphl` can give.  The
\* pointer is into the printer's buffer as the call's own printGraph left it.
\* Once another call has printed or reset the buffer the pointer is stale, and
\* the read finds the buffer's present text, the call's text still in place, or
\* nothing.
CStrFromPtr(ptr) ==
    IF buf_of = self THEN {buf}
    ELSE {buf, printGraph(ast_guard).buf, << >>}

\* ast_to_graphl, the text is copied into an owned String.
CopyText ==
    /\ lpc = "copy"
    /\ \E text \in CStrFromPtr(graphl) :
           printed_graphl' = IF IsUtf8(text) THEN Ok(text) ELSE Err(InvalidUtf8String)
    /\ lpc' = "reset"
    /\ UNCHANGED <<round, code, parse_graph, parsed, ast, ast_guard, graphl, buf,
                   released>>
    /\ UNCHANGED <<buf_of, walkerVars, otherVars>>

\* ast_to_graphl returns, the deferred bufReset runs.
BufReset ==
    /\ lpc = "reset"
    /\ buf' = bufReset
    /\ buf_of' = 0
    /\ lpc' = "release"
    /\ UNCHANGED <<round, code, parse_graph, parsed, ast, ast_guard, graphl,
                   printed_graphl, released>>
    /\ UNCHANGED <<walkerVars, otherVars>>

\* ast_to_graphl returns, the guard `ast` is dropped.
ReleaseAst ==
    /\ lpc = "release"
    /\ released' = Release("free_Graph", ast_guard)
    /\ LET guard == CHOOSE g \in heap.guards : g.call = self
       IN  heap' = [DropGuard(heap, guard.ptr) EXCEPT !.guards = @ \ {guard}]
    /\ ast_guard' = NoValue
    /\ graphl' = NoValue
    /\ lpc' = "printed"
    /\ UNCHANGED <<round, code, parse_graph, parsed, ast, buf, printed_graphl>>
    /\ UNCHANGED <<buf_of, walkerVars, parser_fault, self, suspended, builderVars,
                   consumed, context_cell>>

\* The caller unwraps the text and hands it to the second parse_to_ast.
UnwrapGraphl ==
    /\ lpc = "printed"
    /\ IF printed_graphl.tag = "Ok"
       THEN /\ code' = printed_graphl.val
            /\ round' = 2
            /\ lpc' = "parse"
       ELSE /\ lpc' = "end"
            /\ UNCHANGED <<code, round>>
    /\ UNCHANGED <<parse_graph, parsed, ast, ast_guard, graphl, buf, printed_graphl,
                   released>>
    /\ UNCHANGED <<buf_of, walkerVars, otherVars>>

RoundTripNext ==
    \/ ParseCall
    \/ ParseConvert
    \/ ParseDrop
    \/ UnwrapAst
    \/ IntoNative
    \/ PrintGraph
    \/ CopyText
    \/ BufReset
    \/ ReleaseAst
    \/ UnwrapGraphl

RoundTripSpec == RoundTripInit /\ [][RoundTripNext]_vars

(***************************************************************************)
(* One call of the crate's API: parse_to_ast of a text, or ast_to_graphl   *)
(* of a Graph.  The texts are graphs and texts that are not: the sources   *)
(* above up to two nodes, the source of the round-trip test cut short at   *)
(* each position (the first cuts leave the vertex marker `<` unterminated) *)
(* and with each one of its characters left out, and the same source with  *)
(* a 0 byte put in.  The Graphs are the printable ones up to two nodes and *)
(* Graphs with a 0 byte in one or two of their strings.                    *)
(***************************************************************************)
\* The Graphs of at most two nodes that the printer has a form for.
PrintedGraphs == SourceGraphsOfSize(1) \cup SourceGraphsOfSize(2)

Without(chars, i) == SubSeq(chars, 1, i - 1) \o SubSeq(chars, i + 1, Len(chars))

\* The text with a 0 byte put in after its first i characters.
WithNul(chars, i) ==
    SubSeq(chars, 1, i) \o <<NulChar>> \o SubSeq(chars, i + 1, Len(chars))

WellFormedSources ==
    {<<"0">>, PrintNilSource, CurlyBracesSource}
    \cup { Render(Written(g)) : g \in SourceGraphsOfSize(1) \cup SourceGraphsOfSize(2) }

DamagedSources ==
    { SubSeq(CurlyBracesSource, 1, i) : i \in 0..(Len(CurlyBracesSource) - 1) }
    \cup { Without(CurlyBracesSource, i) : i \in 1..Len(CurlyBracesSource) }

NulSources ==
    { WithNul(CurlyBracesSource, i) : i \in 0..Len(CurlyBracesSource) }
    \cup { WithNul(WithNul(CurlyBracesSource, i), 3) : i \in 0..Len(CurlyBracesSource) }

ParseInputs == WellFormedSources \cup DamagedSources \cup NulSources

NulStrings ==
    { WithNul(StrFoo, i) : i \in 0..Len(StrFoo) }
    \cup {<<NulChar>>, <<"f", NulChar, "o", NulChar>>}

\* Graphs with the string s in one place that holds an identifier or a
\* context string, and with s and t in two.
NulGraphs(s, t) ==
    { GVertex(Nil, Vertex(NameVVar(s))),
      GVertex(Nil, Vertex(NameGVar(s))),
      GVar(Nil, s),
      GVertex(GVar(Nil, s), Vertex(NameVVar(IdA))),
      Nominate(Binding(Nil, s, Vertex(NameVVar(IdB)))),
      Nominate(Binding(Nil, IdN, Vertex(NameVVar(s)))),
      Nominate(Binding(Nil, s, Vertex(NameVVar(t)))),
      GContext(Nil, NameVVar(IdF), s),
      GContext(Nil, NameVVar(s), StrFoo),
      GContext(Nil, NameGVar(s), t),
      Subgraph(Nil, Nil, s),
      GEdgeAnon(Binding(Nil, IdA, Vertex(NameVVar(s))),
                Binding(Nil, t, Vertex(NameVVar(IdB)))),
      GEdgeNamed(Binding(Nil, IdA, Vertex(NameVVar(IdA))),
                 Binding(Nil, IdB, Vertex(NameVVar(IdB))), NameVVar(s)),
      GRuleNamed(Nil, GVar(Nil, t), NameGVar(s)),
      GTensor(GVar(Nil, s), Nil),
      GRuleAnon(Nil, GVar(Nil, s)) }

PrintInputs ==
    PrintedGraphs \cup UNION { NulGraphs(s, t) : s \in NulStrings, t \in NulStrings }

ParserFaults == {"none", "unknown_kind", "null_child"}

ApiInit ==
    /\ graph = Nil
    /\ visitor = "FoldVisitor"
    /\ initial_accumulator = InitialAccumulator(visitor)
    /\ pc = "idle"
    /\ stack = << >>
    /\ accumulator = initial_accumulator
    /\ calls = << >>
    /\ round = 1
    /\ \/ lpc = "parse" /\ code \in ParseInputs /\ ast = NoValue
                        /\ parser_fault \in ParserFaults
       \/ lpc = "into" /\ code = << >> /\ ast \in PrintInputs
                       /\ parser_fault = "none"
    /\ parse_graph = NoValue
    /\ parsed = NoValue
    /\ ast_guard = NoValue
    /\ graphl = NoValue
    /\ buf = << >>
    /\ printed_graphl = NoValue
    /\ released = << >>
    /\ buf_of = 0
    /\ self = 1
    /\ heap = EmptyHeap(0)
    /\ consumed = NoValue
    /\ context_cell = NoValue
    /\ suspended = NoValue
    /\ BuilderIdle

\* Walker::new(&graph).visit(visitor, accumulator) on the Graph parse_to_ast
\* returned, as the tests of walker.rs do.
WalkParsed ==
    /\ lpc = "parsed"
    /\ parsed.tag = "Ok"
    /\ pc = "idle"
    /\ graph' = parsed.val
    /\ \E v \in Visitors :
          /\ visitor' = v
          /\ initial_accumulator' = InitialAccumulator(v)
          /\ accumulator' = InitialAccumulator(v)
    /\ pc' = "new"
    /\ UNCHANGED <<stack, calls>>
    /\ UNCHANGED <<pipelineVars, otherVars>>

ApiNext ==
    \/ ParseCall
    \/ ParseConvert
    \/ ParseDrop
    \/ WalkParsed
    \/ Start
    \/ Visit
    \/ Return
    \/ IntoNative
    \/ PrintGraph
    \/ CopyText
    \/ BufReset
    \/ ReleaseAst

ApiSpec == ApiInit /\ [][ApiNext]_vars

(***************************************************************************)
(* ast_to_graphl beside a native library that may fail to allocate: one of *)
(* the constructor calls of the conversion may return null.  The Graphs    *)
(* are those of the section above.                                         *)
(***************************************************************************)
\* The latest constructor call that may be the one to return null.
MaxFailAt == 12

GuardInit ==
    /\ graph = Nil
    /\ visitor = "FoldVisitor"
    /\ initial_accumulator = InitialAccumulator(visitor)
    /\ pc = "idle"
    /\ stack = << >>
    /\ accumulator = initial_accumulator
    /\ calls = << >>
    /\ lpc = "into"
    /\ round = 1
    /\ code = << >>
    /\ parse_graph = NoValue
    /\ parsed = NoValue
    /\ ast \in PrintInputs
    /\ ast_guard = NoValue
    /\ graphl = NoValue
    /\ buf = << >>
    /\ printed_graphl = NoValue
    /\ released = << >>
    /\ buf_of = 0
    /\ parser_fault \in {"none", "print_null"}
    /\ self = 1
    /\ suspended = NoValue
    /\ BuilderIdle
    /\ \E fail_at \in 0..MaxFailAt : heap = EmptyHeap(fail_at)
    /\ consumed = NoValue
    /\ context_cell = NoValue

GuardNext ==
    \/ IntoNative
    \/ PrintGraph
    \/ CopyText
    \/ BufReset
    \/ ReleaseAst

GuardSpec == GuardInit /\ [][GuardNext]_vars

(***************************************************************************)
(* ResourceConsumer::consume by itself (guard.rs): a tuple of one to three *)
(* guards, each around a native value built before the call, is consumed   *)
(* by a constructor that returns a new allocation or null.                 *)
(***************************************************************************)
\* The values the guards of the tuple are made from.
GuardedFields ==
    <<Field("Graph", Nil), Field("LVar", IdA), Field("Name", NameWildcard),
      Field("Vertex", Vertex(NameVVar(IdB))),
      Field("Graph", GVertex(Nil, Vertex(NameVVar(IdA))))>>

\* The tuples impl_resource_consumer! is instantiated for: R1; R1, R2; R1, R2, R3.
GuardedTuples ==
    UNION {[1..arity -> DOMAIN GuardedFields] : arity \in 1..3}

\* The constructors handed to consume, with the type of their result.
Constructors ==
    {[make |-> "make_VName", type |-> "Vertex"],
     [make |-> "make_VBind", type |-> "Binding"],
     [make |-> "make_GEdgeNamed", type |-> "Graph"]}

ConsumeInit ==
    /\ graph = Nil
    /\ visitor = "FoldVisitor"
    /\ initial_accumulator = InitialAccumulator(visitor)
    /\ pc = "idle"
    /\ stack = << >>
    /\ accumulator = initial_accumulator
    /\ calls = << >>
    /\ PipelineIdle
    /\ parser_fault = "none"
    /\ self = 1
    /\ suspended = NoValue
    /\ BuilderIdle
    /\ context_cell = NoValue
    /\ \E tuple \in GuardedTuples, null \in BOOLEAN :
          LET lets == [i \in DOMAIN tuple |-> GuardedFields[tuple[i]]]
              guards == FieldsIntoGuards(lets, << >>, EmptyHeap(0))
          IN  /\ heap = [guards.heap EXCEPT
                            !.fail_at = IF null THEN guards.heap.calls + 1 ELSE 0]
              /\ consumed = [guards |-> guards.res.val, before |-> NoValue,
                             result |-> NoValue]

\* (guards).consume(f).ok_or_else(..) with one of the constructors as f.
ConsumeCall ==
    /\ consumed # NoValue
    /\ consumed.result = NoValue
    /\ \E f \in Constructors :
          LET call == ConsumeGuards(heap, f.type, f.make, consumed.guards)
          IN  /\ heap' = call.heap
              /\ consumed' = [consumed EXCEPT !.before = heap, !.result = call.res]
    /\ UNCHANGED <<walkerVars, pipelineVars, parser_fault, self, suspended,
                   builderVars, context_cell>>

ConsumeNext == ConsumeCall

ConsumeSpec == ConsumeInit /\ [][ConsumeNext]_vars

(***************************************************************************)
(* The context of the text-substituting visitor callbacks (context.rs,     *)
(* visitors.rs).  A callback is handed a raw pointer to a String, the      *)
(* context; the pointer is null or points to the String.                   *)
(***************************************************************************)
\* Option<T>.
None == [tag |-> "None"]

Some(val) == [tag |-> "Some", val |-> val]

\* A non-null *mut String.
StringPtr(string) == [kind |-> "String", string |-> string]

\* get_context.
get_context(ptr) == IF ptr = Null THEN None ELSE Some(ptr.string)

\* save_context that replaces nothing after the first marker.
save_context_first(ptr, content) ==
    IF ptr = Null THEN ptr
    ELSE LET found == { i \in 1..(Len(ptr.string) - Len(INNER_PLACEHOLDER) + 1) :
                          SubSeq(ptr.string, i, i + Len(INNER_PLACEHOLDER) - 1)
                              = INNER_PLACEHOLDER }
         IN  IF found = {} THEN ptr
             ELSE LET first == CHOOSE i \in found : \A j \in found : i <= j
                  IN  StringPtr(SubSeq(ptr.string, 1, first - 1) \o content
                                \o SubSeq(ptr.string, first + Len(INNER_PLACEHOLDER),
                                          Len(ptr.string)))

\* save_context: what the pointer points to afterwards.
save_context(ptr, content) ==
    IF ptr = Null THEN ptr
    ELSE StringPtr(Replace(ptr.string, INNER_PLACEHOLDER, content))

\* Callbacks of visitors.rs: the text the body returns.
Callbacks ==
    {[name |-> "visitIsGTensorCallback", body |-> <<"v", "i", "s", "i", "t",
                                                    "I", "s", "G", "T", "e",
                                                    "n", "s", "o", "r", "C",
                                                    "a", "l", "l", "b", "a",
                                                    "c", "k">>],
     [name |-> "visitVertexCallback", body |-> <<"v", "i", "s", "i", "t", "V",
                                                 "e", "r", "t", "e", "x", "C",
                                                 "a", "l", "l", "b", "a", "c",
                                                 "k", "{", " ", "%", "i", "n",
                                                 "n", "e", "r", " ", "}">>]}

\* The pieces the context strings are made of, and the strings.
MaxPieces == 3

Pieces == <<IdA, <<" ">>, <<"%">>, <<"%", "i", "n", "n">>, INNER_PLACEHOLDER>>

HelloWorld == <<"H", "e", "l", "l", "o", ",", " ", "w", "o", "r", "l", "d",
                "!", " ", "%", "i", "n", "n", "e", "r">>

ContextStringsOf(pieces) ==
    IF pieces = 0 THEN {<< >>}
    ELSE {Concat([i \in DOMAIN choice |-> Pieces[choice[i]]]) :
              choice \in [1..pieces -> DOMAIN Pieces]}

ContextPtrs ==
    {Null, StringPtr(HelloWorld)}
    \cup {StringPtr(string) :
              string \in UNION {ContextStringsOf(pieces) : pieces \in 0..MaxPieces}}

\* The contents saved.
Contents == {<< >>, IdB, INNER_PLACEHOLDER, <<"G", "o", "o", "d", " ", "b",
                                              "e", "y", ",", " ", "w", "o",
                                              "r", "l", "d", "!">>}

\* The number of save_context and callback calls on one context.
MaxSaves == 2

\* A call on the context: which, the pointer as the call found it, the content
\* saved, and whether a callback ran its body.
ContextCall(fn, before, content, ran) ==
    [fn |-> fn, before |-> before, content |-> content, ran |-> ran]

ContextInit ==
    /\ graph = Nil
    /\ visitor = "FoldVisitor"
    /\ initial_accumulator = InitialAccumulator(visitor)
    /\ pc = "idle"
    /\ stack = << >>
    /\ accumulator = initial_accumulator
    /\ calls = << >>
    /\ PipelineIdle
    /\ parser_fault = "none"
    /\ self = 1
    /\ suspended = NoValue
    /\ BuilderIdle
    /\ heap = EmptyHeap(0)
    /\ consumed = NoValue
    /\ \E ptr \in ContextPtrs : context_cell = [ptr |-> ptr, call |-> NoValue, saves |-> 0]

\* save_context(context, content).
SaveContext ==
    /\ context_cell # NoValue
    /\ context_cell.saves < MaxSaves
    /\ \E content \in Contents :
          context_cell' = [ptr |-> save_context(context_cell.ptr, content),
                      call |-> ContextCall("save_context", context_cell.ptr, content, FALSE),
                      saves |-> context_cell.saves + 1]
    /\ UNCHANGED <<walkerVars, pipelineVars, parser_fault, self, suspended,
                   builderVars, heap, consumed>>

\* A callback made by visitor_callback! is called with the context.
VisitorCallback ==
    /\ context_cell # NoValue
    /\ context_cell.saves < MaxSaves
    /\ \E callback \in Callbacks :
          LET ctx == get_context(context_cell.ptr)
          IN  IF ctx.tag = "Some"
              THEN context_cell' = [ptr |-> save_context(context_cell.ptr, callback.body),
                               call |-> ContextCall(callback.name, context_cell.ptr,
                                                    callback.body, TRUE),
                               saves |-> context_cell.saves + 1]
              ELSE context_cell' = [ptr |-> context_cell.ptr,
                               call |-> ContextCall(callback.name, context_cell.ptr,
                                                    NoValue, FALSE),
                               saves |-> context_cell.saves + 1]
    /\ UNCHANGED <<walkerVars, pipelineVars, parser_fault, self, suspended,
                   builderVars, heap, consumed>>

ContextNext == SaveContext \/ VisitorCallback

ContextSpec == ContextInit /\ [][ContextNext]_vars

(***************************************************************************)
(* The conversions by themselves (ast.rs): a Graph is converted to the     *)
(* native tree, and the tree, as built or as a faulty native library may   *)
(* hold it (a node pointer null, a kind tag that bindings.rs does not      *)
(* know), is converted back by TryFrom<bindings::Graph> for Graph.         *)
(***************************************************************************)
\* Graphs of every variant, with every variant of Name, whose paired fields
\* differ from each other.
VariantGraphs ==
    NulGraphs(IdA, IdB)
    \cup {Nil,
          GVertex(Nil, Vertex(NameWildcard)),
          GVertex(Nil, Vertex(NameQuoteGraph(GVar(Nil, IdA)))),
          GVertex(Nil, Vertex(NameQuoteVertex(Vertex(NameGVar(IdB))))),
          Subgraph(GVar(Nil, IdA), Nil, IdB),
          GEdgeNamed(Binding(Nil, IdA, Vertex(NameWildcard)),
                     Binding(GVar(Nil, IdB), IdB, Vertex(NameGVar(IdA))),
                     NameQuoteGraph(Nil)),
          GContext(GVertex(Nil, Vertex(NameVVar(IdA))), NameWildcard, StrFoo)}

\* The fields of a native node that point to nodes, in the order the TryFrom
\* impl of the node's type converts them.
NodeFields(kind) ==
    CASE kind = "is_GVertex" -> <<"graph_", "vertex_">>
      [] kind = "is_GVar" -> <<"graph_">>
      [] kind = "is_GNominate" -> <<"binding_">>
      [] kind = "is_GEdgeAnon" -> <<"binding_1", "binding_2">>
      [] kind = "is_GEdgeNamed" -> <<"name_", "binding_1", "binding_2">>
      [] kind = "is_GRuleAnon" -> <<"graph_1", "graph_2">>
      [] kind = "is_GRuleNamed" -> <<"name_", "graph_1", "graph_2">>
      [] kind = "is_GSubgraph" -> <<"graphbinding_">>
      [] kind = "is_GTensor" -> <<"graph_1", "graph_2">>
      [] kind = "is_GContext" -> <<"name_", "graph_">>
      [] kind = "is_VBind" -> <<"graph_", "vertex_">>
      [] kind = "is_GBind" -> <<"graph_1", "graph_2">>
      [] kind = "is_VName" -> <<"name_">>
      [] kind = "is_NameQuoteGraph" -> <<"graph_">>
      [] kind = "is_NameQuoteVertex" -> <<"vertex_">>
      [] OTHER -> << >>

\* The node at the end of a path of fields.
RECURSIVE NodeAt(_, _)
NodeAt(tree, path) ==
    IF path = << >> THEN tree ELSE NodeAt(tree[Head(path)], Tail(path))

\* The tree with the node at the path exchanged.
RECURSIVE SetAt(_, _, _)
SetAt(tree, path, node) ==
    IF path = << >> THEN node
    ELSE [tree EXCEPT ![Head(path)] = SetAt(tree[Head(path)], Tail(path), node)]

\* The paths to the nodes of a tree, a node before its fields, the fields in
\* the order of NodeFields.
RECURSIVE Paths(_)
Paths(tree) ==
    LET fields == NodeFields(tree.kind)
    IN  <<<< >>>>
        \o Concat([i \in DOMAIN fields |->
                       LET below == Paths(tree[fields[i]])
                       IN  [j \in DOMAIN below |-> <<fields[i]>> \o below[j]]])

\* A node the native library got wrong: the pointer null, or the kind tag one
\* that bindings.rs has no constant for.
Faulty(node) ==
    IF node = Null THEN {Null} ELSE {Null, [node EXCEPT !.kind = "is_Unknown"]}

OneFault(tree) ==
    UNION {{SetAt(tree, Paths(tree)[i], node) :
                node \in Faulty(NodeAt(tree, Paths(tree)[i]))} :
           i \in DOMAIN Paths(tree)}

\* The tree as built, or with one or two faulty nodes.
HandedBack(tree) ==
    {tree} \cup OneFault(tree) \cup UNION {OneFault(faulty) : faulty \in OneFault(tree)}

ConversionInit ==
    /\ graph = Nil
    /\ visitor = "FoldVisitor"
    /\ initial_accumulator = InitialAccumulator(visitor)
    /\ pc = "idle"
    /\ stack = << >>
    /\ accumulator = initial_accumulator
    /\ calls = << >>
    /\ lpc = "into"
    /\ round = 1
    /\ code = << >>
    /\ parse_graph = NoValue
    /\ parsed = NoValue
    /\ ast \in VariantGraphs
    /\ ast_guard = NoValue
    /\ graphl = NoValue
    /\ buf = << >>
    /\ printed_graphl = NoValue
    /\ released = << >>
    /\ buf_of = 0
    /\ OtherIdle

\* (*ast).try_into() on the native tree, as the library holds it by then.
TryFromNative ==
    /\ lpc = "print"
    /\ \E tree \in HandedBack(ast_guard) :
          /\ ast_guard' = tree
          /\ parsed' = GraphFromNative(tree)
    /\ lpc' = "release"
    /\ UNCHANGED <<round, code, parse_graph, ast, graphl, buf, printed_graphl,
                   released>>
    /\ UNCHANGED <<buf_of, walkerVars, otherVars>>

ConversionNext ==
    \/ IntoNative
    \/ TryFromNative
    \/ ReleaseAst

ConversionSpec == ConversionInit /\ [][ConversionNext]_vars

(***************************************************************************)
(* Two ast_to_graphl calls on different graphs, from two threads.  One     *)
(* call runs at a time; its locals are the pipeline variables, those of    *)
(* the other are in `suspended`.  Switch hands the processor over between  *)
(* two steps.  The printer's buffer belongs to the library, not to a call. *)
(***************************************************************************)
\* The locals of an ast_to_graphl call.
Locals(l, a, guard, ptr, result, id) ==
    [lpc |-> l, ast |-> a, ast_guard |-> guard, graphl |-> ptr,
     printed_graphl |-> result, self |-> id]

TwoPrintsInit ==
    /\ graph = Nil
    /\ visitor = "FoldVisitor"
    /\ initial_accumulator = InitialAccumulator(visitor)
    /\ pc = "idle"
    /\ stack = << >>
    /\ accumulator = initial_accumulator
    /\ calls = << >>
    /\ lpc = "into"
    /\ round = 1
    /\ code = << >>
    /\ parse_graph = NoValue
    /\ parsed = NoValue
    /\ ast \in PrintedGraphs
    /\ ast_guard = NoValue
    /\ graphl = NoValue
    /\ buf = << >>
    /\ printed_graphl = NoValue
    /\ released = << >>
    /\ buf_of = 0
    /\ parser_fault = "none"
    /\ self = 1
    /\ heap = EmptyHeap(0)
    /\ consumed = NoValue
    /\ context_cell = NoValue
    /\ \E other \in PrintedGraphs \ {ast} :
           suspended = Locals("into", other, NoValue, NoValue, NoValue, 2)
    /\ BuilderIdle

\* The scheduler takes the running call off the processor and resumes the
\* other, which has not returned yet.
Switch ==
    /\ suspended # NoValue
    /\ suspended.lpc # "printed"
    /\ lpc' = suspended.lpc
    /\ ast' = suspended.ast
    /\ ast_guard' = suspended.ast_guard
    /\ graphl' = suspended.graphl
    /\ printed_graphl' = suspended.printed_graphl
    /\ self' = suspended.self
    /\ suspended' = Locals(lpc, ast, ast_guard, graphl, printed_graphl, self)
    /\ UNCHANGED <<round, code, parse_graph, parsed, buf, released, buf_of,
                   parser_fault, heap, consumed, context_cell, builderVars>>
    /\ UNCHANGED walkerVars

TwoPrintsNext ==
    \/ IntoNative
    \/ PrintGraph
    \/ CopyText
    \/ BufReset
    \/ ReleaseAst
    \/ Switch

TwoPrintsSpec == TwoPrintsInit /\ [][TwoPrintsNext]_vars

(***************************************************************************)
(* The contract builder (rholang/contract_builder.rs, rholang/channel.rs). *)
(* A text is the sequence of its characters; format! puts the texts of its *)
(* arguments in the places of the braces.                                  *)
(***************************************************************************)
\* Channel::new.
Channel(name) == [name |-> name]

\* ContractBuilder::new: no arguments yet.
ContractBuilderNew(contract_name, channels) ==
    [contract_name |-> contract_name, channels |-> channels, arguments |-> << >>]

\* [String]::join: the texts with `sep` between them.
RECURSIVE Join(_, _)
Join(texts, sep) ==
    IF texts = << >> THEN << >>
    ELSE IF Len(texts) = 1 THEN texts[1]
    ELSE texts[1] \o sep \o Join(Tail(texts), sep)

\* The parameter list of the contract: the arguments, then contract_result.
contract_arguments(b) ==
    Join(Append(b.arguments, <<"c", "o", "n", "t", "r", "a", "c", "t", "_",
                               "r", "e", "s", "u", "l", "t">>),
         <<",", " ">>)

\* "new {}, {}_result in {{ "
Declared(channel) ==
    <<"n", "e", "w", " ">> \o channel.name \o <<",", " ">> \o channel.name
    \o <<"_", "r", "e", "s", "u", "l", "t", " ", "i", "n", " ", "{", " ">>

\* The `arguments` of the arm of index 0.
FirstArguments(b) ==
    IF Len(b.arguments) > 0
    THEN <<"*">> \o Join(b.arguments, <<",">>) \o <<",", " ">>
    ELSE << >>

\* "| for ({channel_name}_result_value <- {channel_name}_result) {{ "
Received(channel) ==
    <<" ", "|", " ", "f", "o", "r", " ", "(">> \o channel.name
    \o <<"_", "r", "e", "s", "u", "l", "t", "_", "v", "a", "l", "u", "e", " ",
         "<", "-", " ">>
    \o channel.name
    \o <<"_", "r", "e", "s", "u", "l", "t", ")", " ", "{", " ">>

\* Called with every channel after the first handed the result value of the
\* first channel.
ChainCallWithFirstResult(b, index) ==
    LET channel == b.channels[index]
    IN  IF index = 1
        THEN channel.name
        \o <<"!", "(">> \o FirstArguments(b) \o <<"*">> \o channel.name
             \o <<"_", "r", "e", "s", "u", "l", "t", ")">> \o Received(channel)
        ELSE channel.name \o <<"!", "(", "*">> \o b.channels[1].name
             \o <<"_", "r", "e", "s", "u", "l", "t", "_", "v", "a", "l", "u",
                  "e", ",", " ", "*">>
             \o channel.name
             \o <<"_", "r", "e", "s", "u", "l", "t", ")">> \o Received(channel)

\* One arm of the call chain; `index` counts the channels from 1.
ChainCall(b, index) ==
    LET channel == b.channels[index]
    IN  IF index = 1
        THEN channel.name
             \o <<"!", "(">> \o FirstArguments(b) \o <<"*">> \o channel.name
             \o <<"_", "r", "e", "s", "u", "l", "t", ")">> \o Received(channel)
        ELSE channel.name \o <<"!", "(", "*">> \o b.channels[index - 1].name
             \o <<"_", "r", "e", "s", "u", "l", "t", "_", "v", "a", "l", "u",
                  "e", ",", " ", "*">>
             \o channel.name
             \o <<"_", "r", "e", "s", "u", "l", "t", ")">> \o Received(channel)

\* Closers with one " }" for each channel.
ClosersOnePerChannel(b) == Concat([i \in 1..Len(b.channels) |-> <<" ", "}">>])

\* "Close all braces": " }" twice for each channel.
Closers(b) == Concat([i \in 1..(Len(b.channels) * 2) |-> <<" ", "}">>])

render_rholang(b) ==
    IF b.channels = << >>
    THEN <<"c", "o", "n", "t", "r", "a", "c", "t", " ">> \o b.contract_name
    \o <<" ", "(">> \o contract_arguments(b)
         \o <<")", " ", "=", " ", "{", " ", "c", "o", "n", "t", "r", "a", "c",
              "t", "_", "r", "e", "s", "u", "l", "t", "!", "(", "N", "i", "l",
              ")", " ", "}">>
    ELSE LET n == Len(b.channels)
             result ==
                 Concat([i \in 1..n |-> Declared(b.channels[i])])
                 \o Concat([i \in 1..n |-> ChainCall(b, i)])
                 \o <<"c", "o", "n", "t", "r", "a", "c", "t", "_", "r", "e",
                      "s", "u", "l", "t", "!", "(", "*">> \o b.channels[n].name
                 \o <<"_", "r", "e", "s", "u", "l", "t", "_", "v", "a", "l",
                      "u", "e", ")">>
                 \o Closers(b)
         IN  <<"c", "o", "n", "t", "r", "a", "c", "t", " ">>
         \o b.contract_name \o <<" ", "(">> \o contract_arguments(b)
             \o <<")", " ", "=", " ", "{", " ">> \o result \o <<" ", "}">>

\* The names of the tests of contract_builder.rs.
TestContract ==
    <<"t", "e", "s", "t", "_", "c", "o", "n", "t", "r", "a", "c", "t">>

Input1 == <<"i", "n", "p", "u", "t", "_", "1">>

Input2 == <<"i", "n", "p", "u", "t", "_", "2">>

ArgumentNames == {Input1, Input2}

\* A name no Rholang name can be, which Channel::new takes as any other.
BraceName == <<"a", "}">>

ChannelNames == {IdA, IdB, BraceName}

\* The vectors of at most MaxChannels channels.
ChannelVectors ==
    UNION { [1..n -> { Channel(name) : name \in ChannelNames }] : n \in 0..MaxChannels }

BuilderInit ==
    /\ graph = Nil
    /\ visitor = "FoldVisitor"
    /\ initial_accumulator = InitialAccumulator(visitor)
    /\ pc = "idle"
    /\ stack = << >>
    /\ accumulator = initial_accumulator
    /\ calls = << >>
    /\ PipelineIdle
    /\ parser_fault = "none"
    /\ self = 1
    /\ heap = EmptyHeap(0)
    /\ consumed = NoValue
    /\ context_cell = NoValue
    /\ suspended = NoValue
    /\ builder \in { ContractBuilderNew(TestContract, channels) :
                       channels \in ChannelVectors }
    /\ rendered = NoValue

\* ContractBuilder::add_argument.
add_argument ==
    /\ builder # NoValue
    /\ Len(builder.arguments) < MaxArguments
    /\ \E name \in ArgumentNames :
          builder' = [builder EXCEPT !.arguments = Append(@, name)]
    /\ UNCHANGED <<rendered, parser_fault, heap, consumed, context_cell, self, suspended>>
    /\ UNCHANGED <<walkerVars, pipelineVars>>

\* A call of ContractBuilder::render_rholang.
RenderCall ==
    /\ builder # NoValue
    /\ rendered' = render_rholang(builder)
    /\ UNCHANGED <<builder, parser_fault, heap, consumed, context_cell, self, suspended>>
    /\ UNCHANGED <<walkerVars, pipelineVars>>

BuilderNext == add_argument \/ RenderCall

BuilderSpec == BuilderInit /\ [][BuilderNext]_vars

(***************************************************************************)
(* What the walker's claims speak of: the tree of steps under the root,    *)
(* the naive recursive traversal, the position of a call's fragments.      *)
(***************************************************************************)
Root == GraphStep(<< >>)

IsPrefix(p, q) == Len(p) <= Len(q) /\ SubSeq(q, 1, Len(p)) = p

\* Step s lies in the subtree of step t (t itself included).
InSubtree(s, t) == IsPrefix(t.ref, s.ref)

IsDescendant(s, t) == InSubtree(s, t) /\ s # t

\* The naive recursion: the node, then its first child's subtree, then its second's.
RECURSIVE NaiveWalk(_)
NaiveWalk(el) ==
    LET cs == ChildSteps(el)
    IN  <<el>>
        \o (IF Len(cs) >= 1 THEN NaiveWalk(cs[1]) ELSE << >>)
        \o (IF Len(cs) >= 2 THEN NaiveWalk(cs[2]) ELSE << >>)

RECURSIVE Reachable(_)
Reachable(el) ==
    {el} \cup UNION { Reachable(ChildSteps(el)[k]) : k \in 1..Len(ChildSteps(el)) }

\* The visitor method of each Graph variant.
MethodFor ==
    [Nil |-> "visit_nil", Vertex |-> "visit_vertex", Var |-> "visit_var",
     Nominate |-> "visit_nominate", EdgeAnon |-> "visit_edge_anon",
     EdgeNamed |-> "visit_edge_named", RuleAnon |-> "visit_rule_anon",
     RuleNamed |-> "visit_rule_named", Subgraph |-> "visit_subgraph",
     Tensor |-> "visit_tensor", Context |-> "visit_context"]

MethodOf(el) ==
    IF el.type = "Binding" THEN "visit_nominate" ELSE MethodFor[Deref(el.ref).kind]

\* The fields of the node a step points to, as its visitor method takes them.
FieldsOf(el) ==
    LET n == Deref(el.ref)
        m == MethodOf(el)
    IN  IF m = "visit_nil" THEN << >>
        ELSE IF m = "visit_vertex" THEN <<n.vertex>>
        ELSE IF m = "visit_var" THEN <<n.var>>
        ELSE IF m = "visit_nominate" THEN <<n.var, n.vertex>>
        ELSE IF m = "visit_edge_anon"
             THEN <<[binding_1 |-> n.binding_1, binding_2 |-> n.binding_2]>>
        ELSE IF m = "visit_edge_named"
             THEN <<[binding_1 |-> n.binding_1, binding_2 |-> n.binding_2,
                     name |-> n.name]>>
        ELSE IF m = "visit_rule_named" THEN <<n.name, n.graph_1, n.graph_2>>
        ELSE IF m = "visit_subgraph" THEN <<n.graph_1, n.graph_2, n.var>>
        ELSE IF m = "visit_context" THEN <<n.name, n.string>>
        ELSE <<n.graph_1, n.graph_2>>

Called == { calls[i].step : i \in 1..Len(calls) }

KindAt(el) == IF el.type = "Binding" THEN "Binding" ELSE Deref(el.ref).kind

\* The round trip has ended with the first parse_to_ast having produced `ast`.
RoundTripEnded == lpc = "end" /\ ast # NoValue

WalkIsNaivePreOrder ==
    LET naive == NaiveWalk(Root)
    IN  /\ Len(calls) <= Len(naive)
        /\ \A i \in 1..Len(calls) :
              /\ calls[i].step = naive[i]
              /\ calls[i].method = MethodOf(naive[i])
        /\ pc = "done" => Len(calls) = Len(naive)
        /\ \A i, j \in 1..Len(calls) :
              IsDescendant(calls[j].step, calls[i].step) => i < j

NestedBinaryWalked ==
    /\ pc = "done"
    /\ graph.kind = "Tensor"
    /\ graph.graph_1.kind = "RuleAnon"
    /\ graph.graph_2.kind = "Nil"
    /\ Len(calls) = 5

\* C3: no step is handed to the visitor twice, and once visit has returned the
\* steps handed to the visitor are exactly the nodes under the root.
EveryNodeVisitedOnce ==
    /\ \A i, j \in 1..Len(calls) : calls[i].step = calls[j].step => i = j
    /\ Called \subseteq Reachable(Root)
    /\ pc = "done" => Called = Reachable(Root)

EdgeGraphWalked ==
    /\ pc = "done"
    /\ graph.kind = "EdgeNamed"
    /\ graph.binding_1.graph.kind = "Var"
    /\ Cardinality(Called) = 6

\* C4: a rule, subgraph or tensor leaves its first child on top of the stack
\* with its second child right below; the first child is the next node called,
\* and a node of the second child's subtree is called only after every node of
\* the first child's subtree.
FirstChildBeforeSecond ==
    \A i \in 1..Len(calls) :
       KindAt(calls[i].step) \in BinaryKinds =>
          LET r == calls[i].step.ref
              first == GraphStep(r \o <<"graph_1">>)
              second == GraphStep(r \o <<"graph_2">>)
          IN  /\ (i = Len(calls) /\ pc = "loop") =>
                    /\ Len(stack) >= 2
                    /\ stack[Len(stack)] = first
                    /\ stack[Len(stack) - 1] = second
              /\ i < Len(calls) => calls[i + 1].step = first
              /\ \A k \in 1..Len(calls) :
                    InSubtree(calls[k].step, second) =>
                       /\ Reachable(first) \subseteq Called
                       /\ \A j \in 1..Len(calls) :
                             InSubtree(calls[j].step, first) => j < k

BinaryWithTwoSubtreesWalked ==
    /\ pc = "done"
    /\ graph.kind \in BinaryKinds
    /\ graph.graph_1.kind = "Vertex"
    /\ graph.graph_2.kind = "Nominate"

(***************************************************************************)
(* The fragments of a walk with the open/close visitor.  Call i appends    *)
(* one opening and one closing fragment; the rendering holds 2n fragments. *)
(***************************************************************************)
OpenOf(i) == calls[i].acc_out.left[Len(calls[i].acc_out.left)]

CloseOf(i) == calls[i].acc_out.right[Len(calls[i].acc_out.right)]

OpenPos(i) == i

ClosePos(i) == 2 * Len(calls) + 1 - i

\* The rendering holds the fragments of call i at OpenPos(i) and ClosePos(i).
FragmentsPlaced ==
    LET out == Rendered(accumulator)
    IN  /\ Len(out) = 2 * Len(calls)
        /\ \A i \in 1..Len(calls) :
              /\ out[OpenPos(i)] = OpenOf(i)
              /\ out[ClosePos(i)] = CloseOf(i)

\* The pair of call i encloses both fragments of call j.
Encloses(i, j) == OpenPos(i) < OpenPos(j) /\ ClosePos(j) < ClosePos(i)

RenderedWalk == pc = "done" /\ visitor = "TestVisitor"

\* C5: after the call for an edge come visit_nominate for binding_1, the calls
\* of binding_1's continuation, visit_nominate for binding_2 and the calls of
\* binding_2's continuation; in the rendering of the open/close visitor the
\* edge's pair encloses the fragments of both bindings, and the opening
\* fragments of the first binding come before those of the second.
EdgeWalksBindingsInOrder ==
    /\ \A i \in 1..Len(calls) :
          (KindAt(calls[i].step) \in EdgeKinds /\ calls[i].returned) =>
             LET r == calls[i].step.ref
                 e == Deref(r)
                 b1 == BindingStep(r \o <<"binding_1">>)
                 b2 == BindingStep(r \o <<"binding_2">>)
                 n1 == Cardinality(Reachable(b1))
                 n2 == Cardinality(Reachable(b2))
             IN  /\ calls[i].method \in {"visit_edge_anon", "visit_edge_named"}
                 /\ \A k \in (i + 1)..Len(calls) :
                       /\ k = i + 1 =>
                             /\ calls[k].step = b1
                             /\ calls[k].method = "visit_nominate"
                             /\ calls[k].args = <<e.binding_1.var, e.binding_1.vertex>>
                       /\ (i + 1 < k /\ k <= i + n1) =>
                             InSubtree(calls[k].step, GraphStep(b1.ref \o <<"graph">>))
                       /\ k = i + n1 + 1 =>
                             /\ calls[k].step = b2
                             /\ calls[k].method = "visit_nominate"
                             /\ calls[k].args = <<e.binding_2.var, e.binding_2.vertex>>
                       /\ (i + n1 + 1 < k /\ k <= i + n1 + n2) =>
                             InSubtree(calls[k].step, GraphStep(b2.ref \o <<"graph">>))
                 /\ pc = "done" => Len(calls) >= i + n1 + n2
                 /\ RenderedWalk =>
                       /\ FragmentsPlaced
                       /\ \A j \in 1..Len(calls) :
                             (InSubtree(calls[j].step, b1) \/ InSubtree(calls[j].step, b2))
                                => Encloses(i, j)
                       /\ \A j, k \in 1..Len(calls) :
                             (InSubtree(calls[j].step, b1) /\ InSubtree(calls[k].step, b2))
                                => OpenPos(j) < OpenPos(k)

EdgeOfTwoVerticesRendered ==
    /\ RenderedWalk
    /\ graph.kind = "EdgeAnon"
    /\ graph.binding_1.graph.kind = "Vertex"
    /\ graph.binding_2.graph.kind = "Vertex"

\* C6: every call is of the method of the variant of the step it was made for
\* (visit_nominate for a binding step) and carries the fields of that node.
CallMatchesVariant ==
    \A i \in 1..Len(calls) :
       /\ calls[i].method = MethodOf(calls[i].step)
       /\ calls[i].args = FieldsOf(calls[i].step)

EdgeBindingsDispatched ==
    /\ pc = "done"
    /\ graph.kind = "EdgeAnon"
    /\ graph.binding_1.graph.kind = "Context"
    /\ graph.binding_2.graph.kind = "Nil"
    /\ Len(calls) = 6

\* C7: no step on the stack has been handed to the visitor before; a panic
\* comes only from a visitor method that does not return; and the walk ends,
\* returning with an empty stack unless the visitor panicked.
WalkTerminates ==
    /\ [](\A k \in 1..Len(stack) : stack[k] \notin Called)
    /\ [](pc = "panicked" => ~calls[Len(calls)].returned)
    /\ <>((pc = "done" /\ stack = << >>) \/ pc = "panicked")

DeepWalkReturned ==
    /\ pc = "done"
    /\ visitor = "FoldVisitor"
    /\ graph.kind = "Subgraph"
    /\ stack = << >>
    /\ Len(calls) = MaxNodes

\* C8: the walk of a chain of N nested bindings ending in Nil never holds more
\* than one step on its stack and makes N calls of visit_nominate, then one
\* call of visit_nil.
RECURSIVE ChainLength(_)
ChainLength(g) == IF g.kind = "Nominate" THEN 1 + ChainLength(g.graph) ELSE 0

RECURSIVE IsNominateChain(_)
IsNominateChain(g) ==
    \/ g.kind = "Nil"
    \/ g.kind = "Nominate" /\ IsNominateChain(g.graph)

ChainWalkedWithOneStep ==
    IsNominateChain(graph) =>
       LET N == ChainLength(graph)
       IN  /\ Len(stack) <= 1
           /\ Len(calls) <= N + 1
           /\ \A i \in 1..Len(calls) :
                 calls[i].method = IF i <= N THEN "visit_nominate" ELSE "visit_nil"
           /\ pc = "done" => Len(calls) = N + 1

LongestChainWalked ==
    /\ pc = "done"
    /\ IsNominateChain(graph)
    /\ ChainLength(graph) = MaxChain
    /\ Len(calls) = MaxChain + 1

IsChainGraph == \A el \in Reachable(Root) : Len(ChildSteps(el)) <= 1

AccumulatorThreaded ==
    /\ calls # << >> => calls[1].acc_in = initial_accumulator
    /\ \A i \in 1..(Len(calls) - 1) : calls[i + 1].acc_in = calls[i].acc_out
    /\ (calls # << >> /\ pc \in {"loop", "done"}) =>
          accumulator = calls[Len(calls)].acc_out
    /\ (pc = "done" /\ visitor = "FoldVisitor") =>
          \A i \in 1..Len(calls) :
             calls[i].acc_out.tag = "Err" => accumulator = calls[i].acc_out

ErrorReturnedToCaller ==
    /\ pc = "done"
    /\ visitor = "FoldVisitor"
    /\ Len(calls) = 4
    /\ calls[1].acc_out.tag = "Ok"
    /\ calls[2].acc_out.tag = "Err"
    /\ accumulator = Err(1)

\* The text is no Graph: it has no 0 byte and the parser returns null for it.
IsMalformed(chars) == CStringNew(chars).tag = "Ok" /\ psGraph(chars) = Null

\* C11: parse_to_ast of a malformed text returns an Err that carries a source
\* position, and the position lies inside the text.
MalformedInputReportsPosition ==
    (lpc = "parsed" /\ IsMalformed(code)) =>
        /\ parsed.tag = "Err"
        /\ "position" \in DOMAIN parsed.val
        /\ parsed.val.position \in 0..Len(code)

\* The tree parse_to_ast got from psGraph for its text.
ParseTree == Returned(psGraph(code))

\* C12: parse_to_ast releases the native parse tree exactly once: while the
\* call runs the tree is not released, and once the call has returned, with
\* the Graph or with the error of the conversion, `released` holds one call,
\* free_Graph of that tree, and the guard is gone.  A text with a 0 byte gets
\* no tree and no release.
ParseTreeReleasedOnce ==
    /\ lpc \in {"parse", "check", "drop"} => released = << >>
    /\ (lpc = "parsed" /\ CStringNew(code).tag = "Err") => released = << >>
    /\ (lpc = "parsed" /\ CStringNew(code).tag = "Ok" /\ ParseTree # Null) =>
           /\ released = <<[fn |-> "free_Graph", ptr |-> ParseTree]>>
           /\ parse_graph = NoValue
           /\ parsed.tag = "Ok" \/ parsed.val.type \in {"InvalidVariant", "NullPointer"}

\* parse_to_ast returned the error of a failed conversion and released the tree.
FailedConversionReleased ==
    /\ lpc = "parsed"
    /\ parsed.tag = "Err"
    /\ parsed.val.type = "InvalidVariant"
    /\ ParseTree # Null
    /\ Len(released) = 1

\* The text ast_to_graphl returns for the graph when it runs alone.
SoloText(g) == printGraph(GraphIntoNative(g).val).buf

\* C13: of two interleaved ast_to_graphl calls on different graphs, each call
\* that has returned has returned exactly the text of its own graph.
EachPrintReturnsOwnText ==
    /\ lpc = "printed" => printed_graphl = Ok(SoloText(ast))
    /\ (suspended # NoValue /\ suspended.lpc = "printed") =>
           suspended.printed_graphl = Ok(SoloText(suspended.ast))

\* Walker::visit run from `stk` and `acc` to its end with no other run in
\* between: where it ends and the accumulator it ends with.
RECURSIVE VisitAlone(_, _, _)
VisitAlone(v, stk, acc) ==
    IF stk = << >> THEN [pc |-> "done", accumulator |-> acc]
    ELSE LET el == stk[Len(stk)]
             result == Apply(v, Dispatch(el), acc)
         IN  IF result.panic THEN [pc |-> "panicked", accumulator |-> acc]
             ELSE VisitAlone(v, SubSeq(stk, 1, Len(stk) - 1) \o Pushes(el), result.acc)

\* The run has ended as it ends alone.
EndedAsAlone(run) ==
    run.pc \in {"done", "panicked"} =>
        LET alone == VisitAlone(run.visitor, <<Root>>, run.initial_accumulator)
        IN  run.pc = alone.pc /\ run.accumulator = alone.accumulator

Running == WalkLocals(visitor, initial_accumulator, pc, stack, accumulator, calls)

\* C14: under any interleaving of the steps of the visit runs over one Graph,
\* no step changes the Graph, every run that has ended has the accumulator it
\* ends with alone, and a step of one run leaves the stack and the accumulator
\* of every other run as they were.
WalksDoNotInterfere ==
    /\ [](EndedAsAlone(Running) /\ \A i \in 1..Len(suspended) : EndedAsAlone(suspended[i]))
    /\ [][graph' = graph]_vars
    /\ [][(Start \/ Visit \/ Return) => suspended' = suspended]_vars

\* One run has returned after at least two visitor calls while another is in
\* the middle of its walk.
WalkEndedBesideAnother ==
    /\ pc = "done"
    /\ Len(calls) >= 2
    /\ \E i \in 1..Len(suspended) :
          /\ suspended[i].pc = "loop"
          /\ suspended[i].calls # << >>
          /\ suspended[i].stack # << >>

\* The 0-based position of the first 0 byte of the text.
FirstNul(chars) ==
    CHOOSE i \in 0..(Len(chars) - 1) :
        /\ chars[i + 1] = NulChar
        /\ \A j \in 1..i : chars[j] # NulChar

HasNul(chars) == \E i \in 1..Len(chars) : chars[i] = NulChar

\* The identifiers and context strings of a Graph.
RECURSIVE StringsOfGraph(_)
RECURSIVE StringsOfName(_)
StringsOfName(name) ==
    CASE name.kind \in {"VVar", "GVar"} -> {name.value}
      [] name.kind = "QuoteGraph" -> StringsOfGraph(name.value)
      [] name.kind = "QuoteVertex" -> StringsOfName(name.value.name)
      [] OTHER -> {}

StringsOfGraph(g) ==
    CASE g.kind = "Nil" -> {}
      [] g.kind = "Vertex" -> StringsOfName(g.vertex.name) \cup StringsOfGraph(g.graph)
      [] g.kind = "Var" -> {g.var} \cup StringsOfGraph(g.graph)
      [] g.kind = "Nominate" ->
            {g.var} \cup StringsOfName(g.vertex.name) \cup StringsOfGraph(g.graph)
      [] g.kind \in EdgeKinds ->
            StringsOfGraph(Nominate(g.binding_1)) \cup StringsOfGraph(Nominate(g.binding_2))
            \cup (IF g.kind = "EdgeNamed" THEN StringsOfName(g.name) ELSE {})
      [] g.kind \in BinaryKinds ->
            StringsOfGraph(g.graph_1) \cup StringsOfGraph(g.graph_2)
            \cup (IF g.kind = "RuleNamed" THEN StringsOfName(g.name) ELSE {})
            \cup (IF g.kind = "Subgraph" THEN {g.var} ELSE {})
      [] g.kind = "Context" ->
            {g.string} \cup StringsOfName(g.name) \cup StringsOfGraph(g.graph)

\* C15: a 0 byte is rejected, never cut off.  parse_to_ast of a text with a 0
\* byte returns InvalidCString with the position of the first 0 byte of the
\* text and gets no tree; ast_to_graphl of a Graph with a 0 byte in an
\* identifier or context string returns InvalidCString with the position of
\* the first 0 byte of such a string, hands no tree to the printer and
\* produces no text.
NulIsRejected ==
    /\ (lpc = "parsed" /\ HasNul(code)) =>
           /\ parsed = Err(InvalidCString(FirstNul(code)))
           /\ parse_graph = NoValue
           /\ released = << >>
    /\ (lpc = "printed" /\ \E str \in StringsOfGraph(ast) : HasNul(str)) =>
           /\ \E str \in StringsOfGraph(ast) :
                 HasNul(str) /\ printed_graphl = Err(InvalidCString(FirstNul(str)))
           /\ ast_guard = NoValue
           /\ graphl = NoValue
           /\ buf = << >>

\* ast_to_graphl returned the position of the 0 byte in the middle of a
\* context string.
NulInContextStringRejected ==
    /\ lpc = "printed"
    /\ ast.kind = "Context"
    /\ ast.string = <<"f", NulChar, "o", NulChar>>
    /\ ~HasNul(ast.name.value)
    /\ printed_graphl = Err(InvalidCString(1))

\* The texts `0` and `{0}`.
NilTexts == {<<"0">>, PrintNilSource}

\* C16: parse_to_ast of `0` and of `{0}` returns Graph::Nil, and a walk over
\* the result makes one visitor call, visit_nil, and returns.
ZeroAndBracedZeroAreNil ==
    (code \in NilTexts /\ parser_fault = "none") =>
        /\ lpc = "parsed" => parsed = Ok(Nil)
        /\ pc # "panicked"
        /\ Len(calls) <= 1
        /\ pc = "done" =>
               /\ Len(calls) = 1
               /\ calls[1].method = "visit_nil"
               /\ calls[1].args = << >>

\* The walk of test_gnil_visitor has returned: `{0}` renders as <nil/>.
BracedZeroWalked ==
    /\ code = PrintNilSource
    /\ pc = "done"
    /\ visitor = "TestVisitor"
    /\ Display(accumulator) = <<"<nil/>\n">>

\* `piece` occurs in `text`.
Contains(text, piece) ==
    \E i \in 0..(Len(text) - Len(piece)) : SubSeq(text, i + 1, i + Len(piece)) = piece

\* The strings of the Context nodes of a Graph.
RECURSIVE ContextStrings(_)
ContextStrings(g) ==
    CASE g.kind = "Nil" -> {}
      [] g.kind = "Context" -> {g.string} \cup ContextStrings(g.graph)
      [] g.kind \in UnaryKinds -> ContextStrings(g.graph)
      [] g.kind \in EdgeKinds ->
            ContextStrings(g.binding_1.graph) \cup ContextStrings(g.binding_2.graph)
      [] g.kind \in BinaryKinds -> ContextStrings(g.graph_1) \cup ContextStrings(g.graph_2)

HasPlaceholder(g) == \E str \in ContextStrings(g) : Contains(str, INNER_PLACEHOLDER)

RECURSIVE Chained(_, _)
Chained(b, index) ==
    IF index > Len(b.channels)
    THEN <<"c", "o", "n", "t", "r", "a", "c", "t", "_", "r", "e", "s", "u",
           "l", "t", "!", "(", "*">> \o b.channels[Len(b.channels)].name
         \o <<"_", "r", "e", "s", "u", "l", "t", "_", "v", "a", "l", "u", "e",
              ")">>
    ELSE LET name == b.channels[index].name
             sent == IF index = 1 THEN FirstArguments(b)
                     ELSE <<"*">> \o b.channels[index - 1].name
                          \o <<"_", "r", "e", "s", "u", "l", "t", "_", "v",
                               "a", "l", "u", "e", ",", " ">>
         IN  name
         \o <<"!", "(">> \o sent \o <<"*">> \o name \o <<"_", "r", "e", "s", "u", "l", "t", ")">>
             \o <<" ", "|", " ", "f", "o", "r", " ", "(">> \o name \o <<"_", "r", "e", "s", "u", "l", "t", "_", "v", "a", "l", "u", "e", " ", "<", "-", " ">> \o name
             \o <<"_", "r", "e", "s", "u", "l", "t", ")", " ", "{", " ">>
             \o Chained(b, index + 1) \o <<" ", "}">>

\* The chain inside the scopes of the channels' names, first channel outermost.
RECURSIVE Scoped(_, _)
Scoped(b, index) ==
    IF index > Len(b.channels) THEN Chained(b, 1)
    ELSE LET name == b.channels[index].name
         IN  <<"n", "e", "w", " ">> \o name \o <<",", " ">> \o name
         \o <<"_", "r", "e", "s", "u", "l", "t", " ", "i", "n", " ", "{",
              " ">>
             \o Scoped(b, index + 1) \o <<" ", "}">>

\* The contract whose body is the chain, or contract_result!(Nil) with no
\* channel.
ChainedContract(b) ==
    <<"c", "o", "n", "t", "r", "a", "c", "t", " ">> \o b.contract_name
    \o <<" ", "(">> \o contract_arguments(b)
    \o <<")", " ", "=", " ", "{", " ">>
    \o (IF b.channels = << >> THEN <<"c", "o", "n", "t", "r", "a", "c", "t",
                                     "_", "r", "e", "s", "u", "l", "t", "!",
                                     "(", "N", "i", "l", ")">> ELSE Scoped(b, 1))
    \o <<" ", "}">>

\* The builder the text in `rendered` was rendered from: arguments are added
\* at the end, so it is the builder with the arguments it had then.
RenderedFrom ==
    { [builder EXCEPT !.arguments = SubSeq(builder.arguments, 1, k)]
      : k \in 0..Len(builder.arguments) }

\* C18: render_rholang gives the contract that calls channel 0 first, calls
\* every later channel with the result value of the channel before it and
\* inside the receive of that channel, and sends the last result value on
\* contract_result; with no channel the body is contract_result!(Nil).
ChannelsChainedInOrder ==
    rendered # NoValue => \E b \in RenderedFrom : rendered = ChainedContract(b)

\* The contract of test_render_with_two_channels has been rendered.
TwoChannelsRendered ==
    /\ rendered # NoValue
    /\ builder = ContractBuilderNew(TestContract, <<Channel(IdA), Channel(IdB)>>)
    /\ rendered =
         <<"c", "o", "n", "t", "r", "a", "c", "t", " ", "t", "e", "s", "t",
           "_", "c", "o", "n", "t", "r", "a", "c", "t", " ", "(", "c", "o",
           "n", "t", "r", "a", "c", "t", "_", "r", "e", "s", "u", "l", "t",
           ")", " ", "=", " ", "{", " ", "n", "e", "w", " ", "a", ",", " ",
           "a", "_", "r", "e", "s", "u", "l", "t", " ", "i", "n", " ", "{",
           " ", "n", "e", "w", " ", "b", ",", " ", "b", "_", "r", "e", "s",
           "u", "l", "t", " ", "i", "n", " ", "{", " ", "a", "!", "(", "*",
           "a", "_", "r", "e", "s", "u", "l", "t", ")", " ", "|", " ", "f",
           "o", "r", " ", "(", "a", "_", "r", "e", "s", "u", "l", "t", "_",
           "v", "a", "l", "u", "e", " ", "<", "-", " ", "a", "_", "r", "e",
           "s", "u", "l", "t", ")", " ", "{", " ", "b", "!", "(", "*", "a",
           "_", "r", "e", "s", "u", "l", "t", "_", "v", "a", "l", "u", "e",
           ",", " ", "*", "b", "_", "r", "e", "s", "u", "l", "t", ")", " ",
           "|", " ", "f", "o", "r", " ", "(", "b", "_", "r", "e", "s", "u",
           "l", "t", "_", "v", "a", "l", "u", "e", " ", "<", "-", " ", "b",
           "_", "r", "e", "s", "u", "l", "t", ")", " ", "{", " ", "c", "o",
           "n", "t", "r", "a", "c", "t", "_", "r", "e", "s", "u", "l", "t",
           "!", "(", "*", "b", "_", "r", "e", "s", "u", "l", "t", "_", "v",
           "a", "l", "u", "e", ")", " ", "}", " ", "}", " ", "}", " ", "}",
           " ", "}">>

\* The send on the first channel with every argument dereferenced: `*arg, `
\* for each argument in the order of insertion, then the result name.
FirstSend(b) ==
    LET name == b.channels[1].name
    IN  name \o <<"!", "(">>
        \o Concat([i \in 1..Len(b.arguments) |-> <<"*">> \o b.arguments[i] \o <<",", " ">>])
        \o <<"*">> \o name \o <<"_", "r", "e", "s", "u", "l", "t", ")">>

\* C19: the send on the first channel lists every argument in the order of
\* insertion, each dereferenced as in the one-argument case, then the result
\* name.
EveryArgumentDereferenced ==
    (rendered # NoValue /\ builder.channels # << >>) =>
        \E b \in RenderedFrom :
            Contains(rendered, <<" ", "{", " ">> \o FirstSend(b) \o <<" ", "|", " ", "f", "o", "r", " ", "(">>)

\* The allocations freed `times` times so far.
FreedTimes(times) == {id \in DOMAIN heap.made : heap.made[id].freed = times}

\* C20: every native allocation ast_to_graphl makes is released exactly once
\* by the time it returns.  No allocation is ever freed twice.  While the call
\* holds the converted tree, every allocation is owned by the root, the root
\* alone is guarded and nothing has been released; the root is released after
\* printing.  When the conversion fails, at a child or at a constructor that
\* returns null, the guards dropped own disjoint allocations and nothing made
\* stays live.
NativeReleasedExactlyOnce ==
    /\ \A id \in DOMAIN heap.made : heap.made[id].freed <= 1
    /\ lpc \in {"print", "copy", "reset", "release"} =>
           /\ heap.dropped = << >>
           /\ heap.guards = {[call |-> self, ptr |-> Len(heap.made)]}
           /\ Owned(heap, Len(heap.made)) = DOMAIN heap.made
    /\ lpc = "printed" =>
           /\ FreedTimes(1) = DOMAIN heap.made
           /\ heap.guards = {}
           /\ \A i, j \in DOMAIN heap.dropped :
                  i # j => Owned(heap, heap.dropped[i].ptr)
                               \cap Owned(heap, heap.dropped[j].ptr) = {}
           /\ printed_graphl.tag = "Ok" =>
                  heap.dropped = <<[fn |-> "free_Graph", ptr |-> Len(heap.made)]>>

\* A constructor returned null after two or more siblings had been built, and
\* ast_to_graphl has returned the error.
SiblingsReleasedAfterNull ==
    /\ lpc = "printed"
    /\ printed_graphl.tag = "Err"
    /\ printed_graphl.val.type = "NullPointer"
    /\ Len(heap.dropped) >= 2

\* The release calls the consume call made: what `dropped` gained.
DroppedByConsume ==
    SubSeq(heap.dropped, Len(consumed.before.dropped) + 1, Len(heap.dropped))

\* C21: consume calls the constructor exactly once with the raw pointers of
\* the guards.  When the constructor returns non-null no guard releases its
\* pointer, the new allocation owns them and the result is that allocation;
\* when it returns null every guarded pointer is released exactly once, none
\* other is, and no result is returned.
ConsumeReleasesOnlyOnNull ==
    (consumed # NoValue /\ consumed.result # NoValue) =>
        LET before == consumed.before
            ptrs == {consumed.guards[i] : i \in DOMAIN consumed.guards}
        IN  /\ heap.calls = before.calls + 1
            /\ consumed.result.tag = "Ok" =>
                   /\ heap.dropped = before.dropped
                   /\ Len(heap.made) = Len(before.made) + 1
                   /\ consumed.result.val = Len(heap.made)
                   /\ heap.made[Len(heap.made)].parts = ptrs
                   /\ \A id \in DOMAIN before.made : heap.made[id] = before.made[id]
            /\ consumed.result.tag = "Err" =>
                   /\ consumed.result.val.type = "NullPointer"
                   /\ Len(heap.made) = Len(before.made)
                   /\ Len(DroppedByConsume) = Len(consumed.guards)
                   /\ {DroppedByConsume[i].ptr : i \in DOMAIN DroppedByConsume} = ptrs
                   /\ \A id \in DOMAIN heap.made :
                          heap.made[id].freed =
                              IF \E ptr \in ptrs : id \in Owned(heap, ptr)
                              THEN 1 ELSE 0

\* consume was handed three guards and a constructor that returned null.
ThreeGuardsConsumedByNull ==
    /\ consumed # NoValue
    /\ consumed.result # NoValue
    /\ consumed.result.tag = "Err"
    /\ Len(consumed.guards) = 3

\* The visit runs over the one Graph: the running one and the others.
Runs == <<Running>> \o suspended

Markers(text) ==
    { i \in 1..(Len(text) - Len(INNER_PLACEHOLDER) + 1) :
        SubSeq(text, i, i + Len(INNER_PLACEHOLDER) - 1) = INNER_PLACEHOLDER }

\* Where the character at `at` of the old text stands in the new one, when
\* every marker before it has become the content.
Moved(text, content, at) ==
    LET before == Cardinality({i \in Markers(text) : i < at})
    IN  (at + before * Len(content)) - before * Len(INNER_PLACEHOLDER)

\* `new` is `old` with the content in the place of every marker and every
\* other character as it was.
ReplacedEverywhere(old, content, new) ==
    /\ Len(new) + Cardinality(Markers(old)) * Len(INNER_PLACEHOLDER)
           = Len(old) + Cardinality(Markers(old)) * Len(content)
    /\ \A at \in Markers(old) :
           SubSeq(new, Moved(old, content, at),
                  Moved(old, content, at) + Len(content) - 1) = content
    /\ \A at \in 1..Len(old) :
           (\A i \in Markers(old) : at < i \/ at >= i + Len(INNER_PLACEHOLDER)) =>
               new[Moved(old, content, at)] = old[at]

\* C23: save_context puts the content in the place of every "%inner" of the
\* context string and leaves the rest of it as it was; on a null pointer it
\* changes nothing; a callback handed a null context does not run its body,
\* one handed a context runs it and saves what it returned.
EveryPlaceholderReplaced ==
    (context_cell # NoValue /\ context_cell.call # NoValue) =>
        LET call == context_cell.call
        IN  /\ call.before = Null =>
                   /\ context_cell.ptr = Null
                   /\ ~call.ran
                   /\ get_context(call.before) = None
            /\ call.before # Null =>
                   /\ context_cell.ptr # Null
                   /\ ReplacedEverywhere(call.before.string, call.content,
                                         context_cell.ptr.string)
                   /\ call.fn # "save_context" => call.ran

\* save_context has replaced two markers of a context that holds other text
\* as well.
TwoPlaceholdersReplaced ==
    /\ context_cell # NoValue
    /\ context_cell.call # NoValue
    /\ context_cell.call.fn = "save_context"
    /\ context_cell.call.before # Null
    /\ Cardinality(Markers(context_cell.call.before.string)) = 2
    /\ Len(context_cell.call.before.string) > 2 * Len(INNER_PLACEHOLDER)
    /\ context_cell.call.content = <<"G", "o", "o", "d", " ", "b", "e", "y", ",",
                                " ", "w", "o", "r", "l", "d", "!">>

\* C24: in ast_to_graphl the buffer is reset only by a call whose printer
\* returned non-null, while the buffer still holds what that call printed
\* (so once), after the text has been copied into the result and before the
\* native tree is released.  A call that returns a text leaves the buffer
\* reset and the tree released; when the printer returned null the call
\* returns Err(InvalidGraphL) with the buffer never reset.
TextCopiedThenBufferReset ==
    /\ [][BufReset =>
              /\ graphl # Null
              /\ buf_of = self
              /\ printed_graphl = Ok(buf)
              /\ printed_graphl' = printed_graphl
              /\ released = << >> /\ released' = << >>
              /\ heap.dropped = << >> /\ heap'.dropped = << >>]_vars
    /\ [][ReleaseAst => (printed_graphl.tag = "Ok" => buf_of = 0 /\ buf = bufReset)]_vars
    /\ []((lpc = "printed" /\ printed_graphl.tag = "Ok") =>
              /\ printed_graphl.val = SoloText(ast)
              /\ buf = bufReset
              /\ buf_of = 0
              /\ Len(released) = 1)
    /\ []((lpc = "printed" /\ parser_fault = "print_null" /\ released # << >>) =>
              /\ printed_graphl = Err(InvalidGraphL)
              /\ buf_of = self)

\* ast_to_graphl has returned a text of some length, with the buffer reset and
\* the tree released.
TextReturnedAfterReset ==
    /\ lpc = "printed"
    /\ printed_graphl.tag = "Ok"
    /\ Len(printed_graphl.val) >= 3
    /\ buf = bufReset
    /\ Len(released) = 1

\* C25: no release call of a dropped guard is handed a null pointer, on any
\* path of parse_to_ast, ast_to_graphl and the conversions to the native tree.
NullNeverReleased ==
    /\ \A i \in DOMAIN released : released[i].ptr # Null
    /\ \A i \in DOMAIN heap.dropped : heap.dropped[i].ptr # 0

\* The type TryFrom expects at the end of a path: that of the field.
TypeAt(path) ==
    IF path = << >> THEN "Graph"
    ELSE LET field == path[Len(path)]
         IN  CASE field \in {"graph_", "graph_1", "graph_2"} -> "Graph"
               [] field \in {"binding_", "binding_1", "binding_2"} -> "Binding"
               [] field = "graphbinding_" -> "GraphBinding"
               [] field = "vertex_" -> "Vertex"
               [] field = "name_" -> "Name"

\* The places of the faulty nodes of the tree in Paths.
Faults(tree) ==
    {i \in DOMAIN Paths(tree) :
        LET node == NodeAt(tree, Paths(tree)[i])
        IN  node = Null \/ node.kind = "is_Unknown"}

\* The error of the faulty node met first.
FirstFault(tree) ==
    LET first == CHOOSE i \in Faults(tree) : \A j \in Faults(tree) : i <= j
        path == Paths(tree)[first]
    IN  IF NodeAt(tree, path) = Null THEN Err(NullPointer(TypeAt(path)))
        ELSE Err(InvalidVariant(TypeAt(path)))

\* C26: converting a native tree to the AST gives NullPointer with the type
\* of the node for a null node pointer and InvalidVariant with the type of
\* the node for a kind tag that is not known; of several faulty nodes the one
\* met first in the order of conversion gives the error, and a tree with a
\* faulty node never gives an AST.
FirstFaultIsTheError ==
    (lpc = "release" /\ parsed # NoValue) =>
        IF Faults(ast_guard) = {} THEN parsed.tag = "Ok"
        ELSE parsed = FirstFault(ast_guard)

\* The conversion met a null Binding deep in a tree that has an unknown kind
\* tag further on, and returned the error of the null pointer.
NullBeforeUnknownReported ==
    /\ lpc = "release"
    /\ parsed = Err(NullPointer("Binding"))
    /\ Cardinality(Faults(ast_guard)) = 2
    /\ \E i \in Faults(ast_guard) :
          NodeAt(ast_guard, Paths(ast_guard)[i]) # Null

\* C27: converting a Graph to the native tree and the tree back gives the
\* Graph again, every field in its place, for every variant of Graph and of
\* Name.
NativeAndBackIsIdentity ==
    (lpc = "release" /\ parsed # NoValue /\ Faults(ast_guard) = {}) =>
        parsed = Ok(ast)

\* A named edge, with its name and its two different bindings, has come back
\* from the native tree.
NamedEdgeCameBack ==
    /\ lpc = "release"
    /\ parsed.tag = "Ok"
    /\ ast.kind = "EdgeNamed"
    /\ ast.binding_1 # ast.binding_2
    /\ parsed.val.kind = "EdgeNamed"

\* The steps of the subtrees rooted at the steps on the stack.
Pending == UNION {Reachable(stack[i]) : i \in DOMAIN stack}

\* C28: at the start of every iteration of the walker loop the subtrees
\* rooted at the steps on the stack are pairwise disjoint, none of their
\* nodes has been visited, and together with the visited nodes they are all
\* the nodes of the walk.
StackSubtreesPartitionUnvisited ==
    pc = "loop" =>
        /\ \A i, j \in DOMAIN stack :
               i # j => Reachable(stack[i]) \cap Reachable(stack[j]) = {}
        /\ Pending \cap Called = {}
        /\ Pending \cup Called = Reachable(GraphStep(<< >>))

\* The loop is about to run with two subtrees waiting, one of them of more
\* than one node, and some nodes visited already.
TwoSubtreesWaiting ==
    /\ pc = "loop"
    /\ Len(stack) >= 2
    /\ Cardinality(Called) >= 2
    /\ \E i \in DOMAIN stack : Cardinality(Reachable(stack[i])) >= 2

\* The names a builder puts into the text.
NamesOf(b) ==
    {b.contract_name} \cup {b.channels[i].name : i \in DOMAIN b.channels}
    \cup {b.arguments[i] : i \in DOMAIN b.arguments}

HasBrace(text) == \E i \in DOMAIN text : text[i] \in {"{", "}"}

\* The number of places up to `upto` where the text has `char`.
CountUpTo(text, char, upto) == Cardinality({i \in 1..upto : text[i] = char})

\* The braces of the text for n channels: 2n + 1 openers, as many closers, no
\* prefix with more closers than openers, and the first opener closed by the
\* last character only.
BracesBalanced(text, n) ==
    /\ CountUpTo(text, "{", Len(text)) = 2 * n + 1
    /\ CountUpTo(text, "}", Len(text)) = 2 * n + 1
    /\ text[Len(text)] = "}"
    /\ \A k \in 1..Len(text) : CountUpTo(text, "}", k) <= CountUpTo(text, "{", k)
    /\ \A k \in 1..(Len(text) - 1) :
           CountUpTo(text, "{", k) > 0 => CountUpTo(text, "}", k) < CountUpTo(text, "{", k)

\* C29: for every number of channels and of arguments the text of
\* render_rholang has balanced braces, the openers of the `new` declarations
\* and of the `for` receives closed by twice as many closers as there are
\* channels, inside one outer pair, and no prefix closing more than it has
\* opened, provided no name given to the builder has a brace in it.
BracesBalancedForBraceFreeNames ==
    (rendered # NoValue /\ \A name \in NamesOf(builder) : ~HasBrace(name)) =>
        BracesBalanced(rendered, Len(builder.channels))

\* C29 as stated, whatever the names: the text of render_rholang has balanced
\* braces for every number of channels and of arguments.
BracesBalancedAlways ==
    rendered # NoValue => BracesBalanced(rendered, Len(builder.channels))

\* A contract of three channels and two arguments has been rendered.
ThreeChannelsRenderedBalanced ==
    /\ rendered # NoValue
    /\ Len(builder.channels) = 3
    /\ Len(builder.arguments) = 2
    /\ \A name \in NamesOf(builder) : ~HasBrace(name)
    /\ CountUpTo(rendered, "}", Len(rendered)) = 7

====
